---------------------------- MODULE Spec2Model ----------------------------
(***************************************************************************)
(* A model of python_to_coffeescript.py: the TokenSync token indexer and   *)
(* the CoffeeScriptTraverser tree renderer.                                *)
(*                                                                         *)
(* Python strings are TLA+ strings (TLC evaluates Len, \o, SubSeq, Head    *)
(* and Tail on them); Python lists are sequences.  A Python attribute that *)
(* is None or missing is a record field that is absent.                    *)
(***************************************************************************)
EXTENDS Integers, Sequences, FiniteSets, TLC

(***************************************************************************)
(* Python's str methods, as the program uses them.                         *)
(***************************************************************************)

\* s[i-1:i] : the i-th character (1-based) as a string.
CharAt(s, i) == SubSeq(s, i, i)

\* str.isspace() of one character.
IsSpace(c) == c \in {" ", "\n", "\t", "\r", "\f"}

\* s.startswith(p)
StartsWith(s, p) == Len(s) >= Len(p) /\ SubSeq(s, 1, Len(p)) = p

RECURSIVE LStrip(_)
\* s.lstrip()
LStrip(s) ==
    IF Len(s) > 0 /\ IsSpace(CharAt(s, 1)) THEN LStrip(Tail(s)) ELSE s

RECURSIVE RStrip(_)
\* s.rstrip()
RStrip(s) ==
    IF Len(s) > 0 /\ IsSpace(CharAt(s, Len(s)))
    THEN RStrip(SubSeq(s, 1, Len(s) - 1))
    ELSE s

\* s.strip()
Strip(s) == LStrip(RStrip(s))

RECURSIVE SplitFrom(_, _, _, _)
\* The pieces of s from position i on, the current piece starting at `from`.
SplitFrom(s, sep, from, i) ==
    IF i > Len(s) THEN << SubSeq(s, from, Len(s)) >>
    ELSE IF CharAt(s, i) = sep
         THEN << SubSeq(s, from, i - 1) >> \o SplitFrom(s, sep, i + 1, i + 1)
         ELSE SplitFrom(s, sep, from, i + 1)

\* s.split(sep) for a one-character separator: ''.split(',') is [''].
Split(s, sep) == SplitFrom(s, sep, 1, 1)

RECURSIVE Join(_, _)
\* sep.join(list)
Join(sep, list) ==
    IF Len(list) = 0 THEN ""
    ELSE IF Len(list) = 1 THEN list[1]
    ELSE list[1] \o sep \o Join(sep, Tail(list))

RECURSIVE Repeat(_, _)
\* s * n
Repeat(s, n) == IF n <= 0 THEN "" ELSE s \o Repeat(s, n - 1)

RECURSIVE FindFrom(_, _, _)
\* The least position >= i at which sub occurs in s, or 0.
FindFrom(s, sub, i) ==
    IF i + Len(sub) - 1 > Len(s) THEN 0
    ELSE IF SubSeq(s, i, i + Len(sub) - 1) = sub THEN i
    ELSE FindFrom(s, sub, i + 1)


(***************************************************************************)
(* The inputs: what the external lexer and parser hand to the program.     *)
(***************************************************************************)

\* A token of tokenize.generate_tokens, (t1, t2, t3, t4, t5): the kind is
\* token_module.tok_name[t1].lower(), val is t2, srow and erow are the rows
\* of t3 and t4 (the columns are never read), raw is t5, the physical line.
Tok(kind, val, srow, erow, raw) ==
    [kind |-> kind, val |-> val, srow |-> srow, erow |-> erow, raw |-> raw]

\* Python's None as an element of a list.
NoneVal == [kind |-> "None"]

\* ---- catalogue: begin ----
Prog_scen1 ==
    [s |-> "def f(a, b=1):\n    return a+b\n",
     name |-> "scen1",
     tokens |-> <<
        Tok("name", "def", 1, 1, "def f(a, b=1):\n"),
        Tok("name", "f", 1, 1, "def f(a, b=1):\n"),
        Tok("op", "(", 1, 1, "def f(a, b=1):\n"),
        Tok("name", "a", 1, 1, "def f(a, b=1):\n"),
        Tok("op", ",", 1, 1, "def f(a, b=1):\n"),
        Tok("name", "b", 1, 1, "def f(a, b=1):\n"),
        Tok("op", "=", 1, 1, "def f(a, b=1):\n"),
        Tok("number", "1", 1, 1, "def f(a, b=1):\n"),
        Tok("op", ")", 1, 1, "def f(a, b=1):\n"),
        Tok("op", ":", 1, 1, "def f(a, b=1):\n"),
        Tok("newline", "\n", 1, 1, "def f(a, b=1):\n"),
        Tok("indent", "    ", 2, 2, "    return a+b\n"),
        Tok("name", "return", 2, 2, "    return a+b\n"),
        Tok("name", "a", 2, 2, "    return a+b\n"),
        Tok("op", "+", 2, 2, "    return a+b\n"),
        Tok("name", "b", 2, 2, "    return a+b\n"),
        Tok("newline", "\n", 2, 2, "    return a+b\n"),
        Tok("dedent", "", 3, 3, ""),
        Tok("endmarker", "", 3, 3, "")
     >>,
     linenos |-> {1, 2},
     tree3 |-> [kind |-> "Module", body |-> <<[kind |-> "FunctionDef", name |-> "f", body |-> <<[kind |-> "Return",
         lineno |-> 2, value |-> [kind |-> "BinOp", lineno |-> 2, left |-> [kind |-> "Name",
         lineno |-> 2, id |-> "a"], op |-> [kind |-> "Add"], right |-> [kind |-> "Name",
         lineno |-> 2, id |-> "b"]]]>>, lineno |-> 1, args |-> [kind |-> "arguments",
         args |-> <<[kind |-> "arg", lineno |-> 1, arg |-> "a"], [kind |-> "arg",
         lineno |-> 1, arg |-> "b"]>>, posonlyargs |-> <<>>, kwonlyargs |-> <<>>,
         kw_defaults |-> <<>>, defaults |-> <<[n |-> 1, kind |-> "Num", lineno |-> 1]>>],
         decorator_list |-> <<>>]>>],
     tree2 |-> [kind |-> "Module", body |-> <<[kind |-> "FunctionDef", name |-> "f", body |-> <<[kind |-> "Return",
         lineno |-> 2, value |-> [kind |-> "BinOp", lineno |-> 2, left |-> [kind |-> "Name",
         lineno |-> 2, id |-> "a"], op |-> [kind |-> "Add"], right |-> [kind |-> "Name",
         lineno |-> 2, id |-> "b"]]]>>, lineno |-> 1, args |-> [kind |-> "arguments",
         args |-> <<[kind |-> "Name", lineno |-> 1, id |-> "a"], [kind |-> "Name",
         lineno |-> 1, id |-> "b"]>>, posonlyargs |-> <<>>, kwonlyargs |-> <<>>,
         kw_defaults |-> <<>>, defaults |-> <<[n |-> 1, kind |-> "Num", lineno |-> 1]>>],
         decorator_list |-> <<>>]>>]]

Prog_scen2 ==
    [s |-> "class C(Base):\n    def m(self, x):\n        return self.x\n",
     name |-> "scen2",
     tokens |-> <<
        Tok("name", "class", 1, 1, "class C(Base):\n"),
        Tok("name", "C", 1, 1, "class C(Base):\n"),
        Tok("op", "(", 1, 1, "class C(Base):\n"),
        Tok("name", "Base", 1, 1, "class C(Base):\n"),
        Tok("op", ")", 1, 1, "class C(Base):\n"),
        Tok("op", ":", 1, 1, "class C(Base):\n"),
        Tok("newline", "\n", 1, 1, "class C(Base):\n"),
        Tok("indent", "    ", 2, 2, "    def m(self, x):\n"),
        Tok("name", "def", 2, 2, "    def m(self, x):\n"),
        Tok("name", "m", 2, 2, "    def m(self, x):\n"),
        Tok("op", "(", 2, 2, "    def m(self, x):\n"),
        Tok("name", "self", 2, 2, "    def m(self, x):\n"),
        Tok("op", ",", 2, 2, "    def m(self, x):\n"),
        Tok("name", "x", 2, 2, "    def m(self, x):\n"),
        Tok("op", ")", 2, 2, "    def m(self, x):\n"),
        Tok("op", ":", 2, 2, "    def m(self, x):\n"),
        Tok("newline", "\n", 2, 2, "    def m(self, x):\n"),
        Tok("indent", "        ", 3, 3, "        return self.x\n"),
        Tok("name", "return", 3, 3, "        return self.x\n"),
        Tok("name", "self", 3, 3, "        return self.x\n"),
        Tok("op", ".", 3, 3, "        return self.x\n"),
        Tok("name", "x", 3, 3, "        return self.x\n"),
        Tok("newline", "\n", 3, 3, "        return self.x\n"),
        Tok("dedent", "", 4, 4, ""),
        Tok("dedent", "", 4, 4, ""),
        Tok("endmarker", "", 4, 4, "")
     >>,
     linenos |-> {1, 2, 3},
     tree3 |-> [kind |-> "Module", body |-> <<[kind |-> "ClassDef", name |-> "C", body |-> <<[kind |-> "FunctionDef",
         name |-> "m", body |-> <<[kind |-> "Return", lineno |-> 3, value |-> [kind |-> "Attribute",
         lineno |-> 3, value |-> [kind |-> "Name", lineno |-> 3, id |-> "self"],
         attr |-> "x"]]>>, lineno |-> 2, args |-> [kind |-> "arguments", args |-> <<[kind |-> "arg",
         lineno |-> 2, arg |-> "self"], [kind |-> "arg", lineno |-> 2, arg |-> "x"]>>,
         posonlyargs |-> <<>>, kwonlyargs |-> <<>>, kw_defaults |-> <<>>, defaults |-> <<>>],
         decorator_list |-> <<>>]>>, lineno |-> 1, decorator_list |-> <<>>, bases |-> <<[kind |-> "Name",
         lineno |-> 1, id |-> "Base"]>>, keywords |-> <<>>]>>],
     tree2 |-> [kind |-> "Module", body |-> <<[kind |-> "ClassDef", name |-> "C", body |-> <<[kind |-> "FunctionDef",
         name |-> "m", body |-> <<[kind |-> "Return", lineno |-> 3, value |-> [kind |-> "Attribute",
         lineno |-> 3, value |-> [kind |-> "Name", lineno |-> 3, id |-> "self"],
         attr |-> "x"]]>>, lineno |-> 2, args |-> [kind |-> "arguments", args |-> <<[kind |-> "Name",
         lineno |-> 2, id |-> "self"], [kind |-> "Name", lineno |-> 2, id |-> "x"]>>,
         posonlyargs |-> <<>>, kwonlyargs |-> <<>>, kw_defaults |-> <<>>, defaults |-> <<>>],
         decorator_list |-> <<>>]>>, lineno |-> 1, decorator_list |-> <<>>, bases |-> <<[kind |-> "Name",
         lineno |-> 1, id |-> "Base"]>>, keywords |-> <<>>]>>]]

Prog_comments ==
    [s |-> "# lead\n\nx = 1 # tail\n\n# two\ny = \"s\"\n",
     name |-> "comments",
     tokens |-> <<
        Tok("comment", "# lead", 1, 1, "# lead\n"),
        Tok("nl", "\n", 1, 1, "# lead\n"),
        Tok("nl", "\n", 2, 2, "\n"),
        Tok("name", "x", 3, 3, "x = 1 # tail\n"),
        Tok("op", "=", 3, 3, "x = 1 # tail\n"),
        Tok("number", "1", 3, 3, "x = 1 # tail\n"),
        Tok("comment", "# tail", 3, 3, "x = 1 # tail\n"),
        Tok("newline", "\n", 3, 3, "x = 1 # tail\n"),
        Tok("nl", "\n", 4, 4, "\n"),
        Tok("comment", "# two", 5, 5, "# two\n"),
        Tok("nl", "\n", 5, 5, "# two\n"),
        Tok("name", "y", 6, 6, "y = \"s\"\n"),
        Tok("op", "=", 6, 6, "y = \"s\"\n"),
        Tok("string", "\"s\"", 6, 6, "y = \"s\"\n"),
        Tok("newline", "\n", 6, 6, "y = \"s\"\n"),
        Tok("endmarker", "", 7, 7, "")
     >>,
     linenos |-> {3, 6},
     tree3 |-> [kind |-> "Module", body |-> <<[kind |-> "Assign", lineno |-> 3, value |-> [n |-> 1,
         kind |-> "Num", lineno |-> 3], targets |-> <<[kind |-> "Name", lineno |-> 3,
         id |-> "x"]>>], [kind |-> "Assign", lineno |-> 6, value |-> [s |-> "s",
         kind |-> "Str", lineno |-> 6], targets |-> <<[kind |-> "Name", lineno |-> 6,
         id |-> "y"]>>]>>],
     tree2 |-> [kind |-> "Module", body |-> <<[kind |-> "Assign", lineno |-> 3, value |-> [n |-> 1,
         kind |-> "Num", lineno |-> 3], targets |-> <<[kind |-> "Name", lineno |-> 3,
         id |-> "x"]>>], [kind |-> "Assign", lineno |-> 6, value |-> [s |-> "s",
         kind |-> "Str", lineno |-> 6], targets |-> <<[kind |-> "Name", lineno |-> 6,
         id |-> "y"]>>]>>]]

Prog_strdefault ==
    [s |-> "def f(a=\"x,y\"):\n    pass\n",
     name |-> "strdefault",
     tokens |-> <<
        Tok("name", "def", 1, 1, "def f(a=\"x,y\"):\n"),
        Tok("name", "f", 1, 1, "def f(a=\"x,y\"):\n"),
        Tok("op", "(", 1, 1, "def f(a=\"x,y\"):\n"),
        Tok("name", "a", 1, 1, "def f(a=\"x,y\"):\n"),
        Tok("op", "=", 1, 1, "def f(a=\"x,y\"):\n"),
        Tok("string", "\"x,y\"", 1, 1, "def f(a=\"x,y\"):\n"),
        Tok("op", ")", 1, 1, "def f(a=\"x,y\"):\n"),
        Tok("op", ":", 1, 1, "def f(a=\"x,y\"):\n"),
        Tok("newline", "\n", 1, 1, "def f(a=\"x,y\"):\n"),
        Tok("indent", "    ", 2, 2, "    pass\n"),
        Tok("name", "pass", 2, 2, "    pass\n"),
        Tok("newline", "\n", 2, 2, "    pass\n"),
        Tok("dedent", "", 3, 3, ""),
        Tok("endmarker", "", 3, 3, "")
     >>,
     linenos |-> {1, 2},
     tree3 |-> [kind |-> "Module", body |-> <<[kind |-> "FunctionDef", name |-> "f", body |-> <<[kind |-> "Pass",
         lineno |-> 2]>>, lineno |-> 1, args |-> [kind |-> "arguments", args |-> <<[kind |-> "arg",
         lineno |-> 1, arg |-> "a"]>>, posonlyargs |-> <<>>, kwonlyargs |-> <<>>,
         kw_defaults |-> <<>>, defaults |-> <<[s |-> "x,y", kind |-> "Str", lineno |-> 1]>>],
         decorator_list |-> <<>>]>>],
     tree2 |-> [kind |-> "Module", body |-> <<[kind |-> "FunctionDef", name |-> "f", body |-> <<[kind |-> "Pass",
         lineno |-> 2]>>, lineno |-> 1, args |-> [kind |-> "arguments", args |-> <<[kind |-> "Name",
         lineno |-> 1, id |-> "a"]>>, posonlyargs |-> <<>>, kwonlyargs |-> <<>>,
         kw_defaults |-> <<>>, defaults |-> <<[s |-> "x,y", kind |-> "Str", lineno |-> 1]>>],
         decorator_list |-> <<>>]>>]]

Prog_strings ==
    [s |-> "x = \"a\"\nf(\"b\", 'c,d')\nd = {\"k\": \"v\"}\n",
     name |-> "strings",
     tokens |-> <<
        Tok("name", "x", 1, 1, "x = \"a\"\n"),
        Tok("op", "=", 1, 1, "x = \"a\"\n"),
        Tok("string", "\"a\"", 1, 1, "x = \"a\"\n"),
        Tok("newline", "\n", 1, 1, "x = \"a\"\n"),
        Tok("name", "f", 2, 2, "f(\"b\", 'c,d')\n"),
        Tok("op", "(", 2, 2, "f(\"b\", 'c,d')\n"),
        Tok("string", "\"b\"", 2, 2, "f(\"b\", 'c,d')\n"),
        Tok("op", ",", 2, 2, "f(\"b\", 'c,d')\n"),
        Tok("string", "'c,d'", 2, 2, "f(\"b\", 'c,d')\n"),
        Tok("op", ")", 2, 2, "f(\"b\", 'c,d')\n"),
        Tok("newline", "\n", 2, 2, "f(\"b\", 'c,d')\n"),
        Tok("name", "d", 3, 3, "d = {\"k\": \"v\"}\n"),
        Tok("op", "=", 3, 3, "d = {\"k\": \"v\"}\n"),
        Tok("op", "{", 3, 3, "d = {\"k\": \"v\"}\n"),
        Tok("string", "\"k\"", 3, 3, "d = {\"k\": \"v\"}\n"),
        Tok("op", ":", 3, 3, "d = {\"k\": \"v\"}\n"),
        Tok("string", "\"v\"", 3, 3, "d = {\"k\": \"v\"}\n"),
        Tok("op", "}", 3, 3, "d = {\"k\": \"v\"}\n"),
        Tok("newline", "\n", 3, 3, "d = {\"k\": \"v\"}\n"),
        Tok("endmarker", "", 4, 4, "")
     >>,
     linenos |-> {1, 2, 3},
     tree3 |-> [kind |-> "Module", body |-> <<[kind |-> "Assign", lineno |-> 1, value |-> [s |-> "a",
         kind |-> "Str", lineno |-> 1], targets |-> <<[kind |-> "Name", lineno |-> 1,
         id |-> "x"]>>], [kind |-> "Expr", lineno |-> 2, value |-> [kind |-> "Call",
         lineno |-> 2, args |-> <<[s |-> "b", kind |-> "Str", lineno |-> 2],
         [s |-> "c,d", kind |-> "Str", lineno |-> 2]>>, keywords |-> <<>>, func |-> [kind |-> "Name",
         lineno |-> 2, id |-> "f"]]], [kind |-> "Assign", lineno |-> 3, value |-> [kind |-> "Dict",
         lineno |-> 3, keys |-> <<[s |-> "k", kind |-> "Str", lineno |-> 3]>>,
         values |-> <<[s |-> "v", kind |-> "Str", lineno |-> 3]>>], targets |-> <<[kind |-> "Name",
         lineno |-> 3, id |-> "d"]>>]>>],
     tree2 |-> [kind |-> "Module", body |-> <<[kind |-> "Assign", lineno |-> 1, value |-> [s |-> "a",
         kind |-> "Str", lineno |-> 1], targets |-> <<[kind |-> "Name", lineno |-> 1,
         id |-> "x"]>>], [kind |-> "Expr", lineno |-> 2, value |-> [kind |-> "Call",
         lineno |-> 2, args |-> <<[s |-> "b", kind |-> "Str", lineno |-> 2],
         [s |-> "c,d", kind |-> "Str", lineno |-> 2]>>, keywords |-> <<>>, func |-> [kind |-> "Name",
         lineno |-> 2, id |-> "f"]]], [kind |-> "Assign", lineno |-> 3, value |-> [kind |-> "Dict",
         lineno |-> 3, keys |-> <<[s |-> "k", kind |-> "Str", lineno |-> 3]>>,
         values |-> <<[s |-> "v", kind |-> "Str", lineno |-> 3]>>], targets |-> <<[kind |-> "Name",
         lineno |-> 3, id |-> "d"]>>]>>]]

Prog_loops ==
    [s |-> "for i in y:\n    break\nelse:\n    pass\nwhile x:\n    continue\nz = 1\n",
     name |-> "loops",
     tokens |-> <<
        Tok("name", "for", 1, 1, "for i in y:\n"),
        Tok("name", "i", 1, 1, "for i in y:\n"),
        Tok("name", "in", 1, 1, "for i in y:\n"),
        Tok("name", "y", 1, 1, "for i in y:\n"),
        Tok("op", ":", 1, 1, "for i in y:\n"),
        Tok("newline", "\n", 1, 1, "for i in y:\n"),
        Tok("indent", "    ", 2, 2, "    break\n"),
        Tok("name", "break", 2, 2, "    break\n"),
        Tok("newline", "\n", 2, 2, "    break\n"),
        Tok("dedent", "", 3, 3, "else:\n"),
        Tok("name", "else", 3, 3, "else:\n"),
        Tok("op", ":", 3, 3, "else:\n"),
        Tok("newline", "\n", 3, 3, "else:\n"),
        Tok("indent", "    ", 4, 4, "    pass\n"),
        Tok("name", "pass", 4, 4, "    pass\n"),
        Tok("newline", "\n", 4, 4, "    pass\n"),
        Tok("dedent", "", 5, 5, "while x:\n"),
        Tok("name", "while", 5, 5, "while x:\n"),
        Tok("name", "x", 5, 5, "while x:\n"),
        Tok("op", ":", 5, 5, "while x:\n"),
        Tok("newline", "\n", 5, 5, "while x:\n"),
        Tok("indent", "    ", 6, 6, "    continue\n"),
        Tok("name", "continue", 6, 6, "    continue\n"),
        Tok("newline", "\n", 6, 6, "    continue\n"),
        Tok("dedent", "", 7, 7, "z = 1\n"),
        Tok("name", "z", 7, 7, "z = 1\n"),
        Tok("op", "=", 7, 7, "z = 1\n"),
        Tok("number", "1", 7, 7, "z = 1\n"),
        Tok("newline", "\n", 7, 7, "z = 1\n"),
        Tok("endmarker", "", 8, 8, "")
     >>,
     linenos |-> {1, 2, 4, 5, 6, 7},
     tree3 |-> [kind |-> "Module", body |-> <<[kind |-> "For", body |-> <<[kind |-> "Break",
         lineno |-> 2]>>, lineno |-> 1, target |-> [kind |-> "Name", lineno |-> 1,
         id |-> "i"], iter |-> [kind |-> "Name", lineno |-> 1, id |-> "y"], orelse |-> <<[kind |-> "Pass",
         lineno |-> 4]>>], [kind |-> "While", body |-> <<[kind |-> "Continue",
         lineno |-> 6]>>, lineno |-> 5, orelse |-> <<>>, test |-> [kind |-> "Name",
         lineno |-> 5, id |-> "x"]], [kind |-> "Assign", lineno |-> 7, value |-> [n |-> 1,
         kind |-> "Num", lineno |-> 7], targets |-> <<[kind |-> "Name", lineno |-> 7,
         id |-> "z"]>>]>>],
     tree2 |-> [kind |-> "Module", body |-> <<[kind |-> "For", body |-> <<[kind |-> "Break",
         lineno |-> 2]>>, lineno |-> 1, target |-> [kind |-> "Name", lineno |-> 1,
         id |-> "i"], iter |-> [kind |-> "Name", lineno |-> 1, id |-> "y"], orelse |-> <<[kind |-> "Pass",
         lineno |-> 4]>>], [kind |-> "While", body |-> <<[kind |-> "Continue",
         lineno |-> 6]>>, lineno |-> 5, orelse |-> <<>>, test |-> [kind |-> "Name",
         lineno |-> 5, id |-> "x"]], [kind |-> "Assign", lineno |-> 7, value |-> [n |-> 1,
         kind |-> "Num", lineno |-> 7], targets |-> <<[kind |-> "Name", lineno |-> 7,
         id |-> "z"]>>]>>]]

Prog_globals ==
    [s |-> "def f():\n    global x\n    x = 1\n",
     name |-> "globals",
     tokens |-> <<
        Tok("name", "def", 1, 1, "def f():\n"),
        Tok("name", "f", 1, 1, "def f():\n"),
        Tok("op", "(", 1, 1, "def f():\n"),
        Tok("op", ")", 1, 1, "def f():\n"),
        Tok("op", ":", 1, 1, "def f():\n"),
        Tok("newline", "\n", 1, 1, "def f():\n"),
        Tok("indent", "    ", 2, 2, "    global x\n"),
        Tok("name", "global", 2, 2, "    global x\n"),
        Tok("name", "x", 2, 2, "    global x\n"),
        Tok("newline", "\n", 2, 2, "    global x\n"),
        Tok("name", "x", 3, 3, "    x = 1\n"),
        Tok("op", "=", 3, 3, "    x = 1\n"),
        Tok("number", "1", 3, 3, "    x = 1\n"),
        Tok("newline", "\n", 3, 3, "    x = 1\n"),
        Tok("dedent", "", 4, 4, ""),
        Tok("endmarker", "", 4, 4, "")
     >>,
     linenos |-> {1, 2, 3},
     tree3 |-> [kind |-> "Module", body |-> <<[kind |-> "FunctionDef", name |-> "f", body |-> <<[kind |-> "Global",
         lineno |-> 2, names |-> <<"x">>], [kind |-> "Assign", lineno |-> 3,
         value |-> [n |-> 1, kind |-> "Num", lineno |-> 3], targets |-> <<[kind |-> "Name",
         lineno |-> 3, id |-> "x"]>>]>>, lineno |-> 1, args |-> [kind |-> "arguments",
         args |-> <<>>, posonlyargs |-> <<>>, kwonlyargs |-> <<>>, kw_defaults |-> <<>>,
         defaults |-> <<>>], decorator_list |-> <<>>]>>],
     tree2 |-> [kind |-> "Module", body |-> <<[kind |-> "FunctionDef", name |-> "f", body |-> <<[kind |-> "Global",
         lineno |-> 2, names |-> <<"x">>], [kind |-> "Assign", lineno |-> 3,
         value |-> [n |-> 1, kind |-> "Num", lineno |-> 3], targets |-> <<[kind |-> "Name",
         lineno |-> 3, id |-> "x"]>>]>>, lineno |-> 1, args |-> [kind |-> "arguments",
         args |-> <<>>, posonlyargs |-> <<>>, kwonlyargs |-> <<>>, kw_defaults |-> <<>>,
         defaults |-> <<>>], decorator_list |-> <<>>]>>]]

Prog_unsupported ==
    [s |-> "x = {1, 2}\ny = 3\n",
     name |-> "unsupported",
     tokens |-> <<
        Tok("name", "x", 1, 1, "x = {1, 2}\n"),
        Tok("op", "=", 1, 1, "x = {1, 2}\n"),
        Tok("op", "{", 1, 1, "x = {1, 2}\n"),
        Tok("number", "1", 1, 1, "x = {1, 2}\n"),
        Tok("op", ",", 1, 1, "x = {1, 2}\n"),
        Tok("number", "2", 1, 1, "x = {1, 2}\n"),
        Tok("op", "}", 1, 1, "x = {1, 2}\n"),
        Tok("newline", "\n", 1, 1, "x = {1, 2}\n"),
        Tok("name", "y", 2, 2, "y = 3\n"),
        Tok("op", "=", 2, 2, "y = 3\n"),
        Tok("number", "3", 2, 2, "y = 3\n"),
        Tok("newline", "\n", 2, 2, "y = 3\n"),
        Tok("endmarker", "", 3, 3, "")
     >>,
     linenos |-> {1, 2},
     tree3 |-> [kind |-> "Module", body |-> <<[kind |-> "Assign", lineno |-> 1, value |-> [kind |-> "Set",
         lineno |-> 1, elts |-> <<[n |-> 1, kind |-> "Num", lineno |-> 1], [n |-> 2,
         kind |-> "Num", lineno |-> 1]>>], targets |-> <<[kind |-> "Name", lineno |-> 1,
         id |-> "x"]>>], [kind |-> "Assign", lineno |-> 2, value |-> [n |-> 3,
         kind |-> "Num", lineno |-> 2], targets |-> <<[kind |-> "Name", lineno |-> 2,
         id |-> "y"]>>]>>],
     tree2 |-> [kind |-> "Module", body |-> <<[kind |-> "Assign", lineno |-> 1, value |-> [kind |-> "Set",
         lineno |-> 1, elts |-> <<[n |-> 1, kind |-> "Num", lineno |-> 1], [n |-> 2,
         kind |-> "Num", lineno |-> 1]>>], targets |-> <<[kind |-> "Name", lineno |-> 1,
         id |-> "x"]>>], [kind |-> "Assign", lineno |-> 2, value |-> [n |-> 3,
         kind |-> "Num", lineno |-> 2], targets |-> <<[kind |-> "Name", lineno |-> 2,
         id |-> "y"]>>]>>]]

Prog_inclass ==
    [s |-> "class K:\n    x = {1}\n",
     name |-> "inclass",
     tokens |-> <<
        Tok("name", "class", 1, 1, "class K:\n"),
        Tok("name", "K", 1, 1, "class K:\n"),
        Tok("op", ":", 1, 1, "class K:\n"),
        Tok("newline", "\n", 1, 1, "class K:\n"),
        Tok("indent", "    ", 2, 2, "    x = {1}\n"),
        Tok("name", "x", 2, 2, "    x = {1}\n"),
        Tok("op", "=", 2, 2, "    x = {1}\n"),
        Tok("op", "{", 2, 2, "    x = {1}\n"),
        Tok("number", "1", 2, 2, "    x = {1}\n"),
        Tok("op", "}", 2, 2, "    x = {1}\n"),
        Tok("newline", "\n", 2, 2, "    x = {1}\n"),
        Tok("dedent", "", 3, 3, ""),
        Tok("endmarker", "", 3, 3, "")
     >>,
     linenos |-> {1, 2},
     tree3 |-> [kind |-> "Module", body |-> <<[kind |-> "ClassDef", name |-> "K", body |-> <<[kind |-> "Assign",
         lineno |-> 2, value |-> [kind |-> "Set", lineno |-> 2, elts |-> <<[n |-> 1,
         kind |-> "Num", lineno |-> 2]>>], targets |-> <<[kind |-> "Name", lineno |-> 2,
         id |-> "x"]>>]>>, lineno |-> 1, decorator_list |-> <<>>, bases |-> <<>>,
         keywords |-> <<>>]>>],
     tree2 |-> [kind |-> "Module", body |-> <<[kind |-> "ClassDef", name |-> "K", body |-> <<[kind |-> "Assign",
         lineno |-> 2, value |-> [kind |-> "Set", lineno |-> 2, elts |-> <<[n |-> 1,
         kind |-> "Num", lineno |-> 2]>>], targets |-> <<[kind |-> "Name", lineno |-> 2,
         id |-> "x"]>>]>>, lineno |-> 1, decorator_list |-> <<>>, bases |-> <<>>,
         keywords |-> <<>>]>>]]

Prog_methods ==
    [s |-> "class C:\n    def m(cls, x):\n        self.a.b = other.c\n        return self\n    def n(self):\n        return self.f(self.x).y\ndef g(self, y):\n    return self.y\n",
     name |-> "methods",
     tokens |-> <<
        Tok("name", "class", 1, 1, "class C:\n"),
        Tok("name", "C", 1, 1, "class C:\n"),
        Tok("op", ":", 1, 1, "class C:\n"),
        Tok("newline", "\n", 1, 1, "class C:\n"),
        Tok("indent", "    ", 2, 2, "    def m(cls, x):\n"),
        Tok("name", "def", 2, 2, "    def m(cls, x):\n"),
        Tok("name", "m", 2, 2, "    def m(cls, x):\n"),
        Tok("op", "(", 2, 2, "    def m(cls, x):\n"),
        Tok("name", "cls", 2, 2, "    def m(cls, x):\n"),
        Tok("op", ",", 2, 2, "    def m(cls, x):\n"),
        Tok("name", "x", 2, 2, "    def m(cls, x):\n"),
        Tok("op", ")", 2, 2, "    def m(cls, x):\n"),
        Tok("op", ":", 2, 2, "    def m(cls, x):\n"),
        Tok("newline", "\n", 2, 2, "    def m(cls, x):\n"),
        Tok("indent", "        ", 3, 3, "        self.a.b = other.c\n"),
        Tok("name", "self", 3, 3, "        self.a.b = other.c\n"),
        Tok("op", ".", 3, 3, "        self.a.b = other.c\n"),
        Tok("name", "a", 3, 3, "        self.a.b = other.c\n"),
        Tok("op", ".", 3, 3, "        self.a.b = other.c\n"),
        Tok("name", "b", 3, 3, "        self.a.b = other.c\n"),
        Tok("op", "=", 3, 3, "        self.a.b = other.c\n"),
        Tok("name", "other", 3, 3, "        self.a.b = other.c\n"),
        Tok("op", ".", 3, 3, "        self.a.b = other.c\n"),
        Tok("name", "c", 3, 3, "        self.a.b = other.c\n"),
        Tok("newline", "\n", 3, 3, "        self.a.b = other.c\n"),
        Tok("name", "return", 4, 4, "        return self\n"),
        Tok("name", "self", 4, 4, "        return self\n"),
        Tok("newline", "\n", 4, 4, "        return self\n"),
        Tok("dedent", "", 5, 5, "    def n(self):\n"),
        Tok("name", "def", 5, 5, "    def n(self):\n"),
        Tok("name", "n", 5, 5, "    def n(self):\n"),
        Tok("op", "(", 5, 5, "    def n(self):\n"),
        Tok("name", "self", 5, 5, "    def n(self):\n"),
        Tok("op", ")", 5, 5, "    def n(self):\n"),
        Tok("op", ":", 5, 5, "    def n(self):\n"),
        Tok("newline", "\n", 5, 5, "    def n(self):\n"),
        Tok("indent", "        ", 6, 6, "        return self.f(self.x).y\n"),
        Tok("name", "return", 6, 6, "        return self.f(self.x).y\n"),
        Tok("name", "self", 6, 6, "        return self.f(self.x).y\n"),
        Tok("op", ".", 6, 6, "        return self.f(self.x).y\n"),
        Tok("name", "f", 6, 6, "        return self.f(self.x).y\n"),
        Tok("op", "(", 6, 6, "        return self.f(self.x).y\n"),
        Tok("name", "self", 6, 6, "        return self.f(self.x).y\n"),
        Tok("op", ".", 6, 6, "        return self.f(self.x).y\n"),
        Tok("name", "x", 6, 6, "        return self.f(self.x).y\n"),
        Tok("op", ")", 6, 6, "        return self.f(self.x).y\n"),
        Tok("op", ".", 6, 6, "        return self.f(self.x).y\n"),
        Tok("name", "y", 6, 6, "        return self.f(self.x).y\n"),
        Tok("newline", "\n", 6, 6, "        return self.f(self.x).y\n"),
        Tok("dedent", "", 7, 7, "def g(self, y):\n"),
        Tok("dedent", "", 7, 7, "def g(self, y):\n"),
        Tok("name", "def", 7, 7, "def g(self, y):\n"),
        Tok("name", "g", 7, 7, "def g(self, y):\n"),
        Tok("op", "(", 7, 7, "def g(self, y):\n"),
        Tok("name", "self", 7, 7, "def g(self, y):\n"),
        Tok("op", ",", 7, 7, "def g(self, y):\n"),
        Tok("name", "y", 7, 7, "def g(self, y):\n"),
        Tok("op", ")", 7, 7, "def g(self, y):\n"),
        Tok("op", ":", 7, 7, "def g(self, y):\n"),
        Tok("newline", "\n", 7, 7, "def g(self, y):\n"),
        Tok("indent", "    ", 8, 8, "    return self.y\n"),
        Tok("name", "return", 8, 8, "    return self.y\n"),
        Tok("name", "self", 8, 8, "    return self.y\n"),
        Tok("op", ".", 8, 8, "    return self.y\n"),
        Tok("name", "y", 8, 8, "    return self.y\n"),
        Tok("newline", "\n", 8, 8, "    return self.y\n"),
        Tok("dedent", "", 9, 9, ""),
        Tok("endmarker", "", 9, 9, "")
     >>,
     linenos |-> {1, 2, 3, 4, 5, 6, 7, 8},
     tree3 |-> [kind |-> "Module", body |-> <<[kind |-> "ClassDef", name |-> "C", body |-> <<[kind |-> "FunctionDef",
         name |-> "m", body |-> <<[kind |-> "Assign", lineno |-> 3, value |-> [kind |-> "Attribute",
         lineno |-> 3, value |-> [kind |-> "Name", lineno |-> 3, id |-> "other"],
         attr |-> "c"], targets |-> <<[kind |-> "Attribute", lineno |-> 3, value |-> [kind |-> "Attribute",
         lineno |-> 3, value |-> [kind |-> "Name", lineno |-> 3, id |-> "self"],
         attr |-> "a"], attr |-> "b"]>>], [kind |-> "Return", lineno |-> 4, value |-> [kind |-> "Name",
         lineno |-> 4, id |-> "self"]]>>, lineno |-> 2, args |-> [kind |-> "arguments",
         args |-> <<[kind |-> "arg", lineno |-> 2, arg |-> "cls"], [kind |-> "arg",
         lineno |-> 2, arg |-> "x"]>>, posonlyargs |-> <<>>, kwonlyargs |-> <<>>,
         kw_defaults |-> <<>>, defaults |-> <<>>], decorator_list |-> <<>>],
         [kind |-> "FunctionDef", name |-> "n", body |-> <<[kind |-> "Return",
         lineno |-> 6, value |-> [kind |-> "Attribute", lineno |-> 6, value |-> [kind |-> "Call",
         lineno |-> 6, args |-> <<[kind |-> "Attribute", lineno |-> 6, value |-> [kind |-> "Name",
         lineno |-> 6, id |-> "self"], attr |-> "x"]>>, keywords |-> <<>>, func |-> [kind |-> "Attribute",
         lineno |-> 6, value |-> [kind |-> "Name", lineno |-> 6, id |-> "self"],
         attr |-> "f"]], attr |-> "y"]]>>, lineno |-> 5, args |-> [kind |-> "arguments",
         args |-> <<[kind |-> "arg", lineno |-> 5, arg |-> "self"]>>, posonlyargs |-> <<>>,
         kwonlyargs |-> <<>>, kw_defaults |-> <<>>, defaults |-> <<>>], decorator_list |-> <<>>]>>,
         lineno |-> 1, decorator_list |-> <<>>, bases |-> <<>>, keywords |-> <<>>],
         [kind |-> "FunctionDef", name |-> "g", body |-> <<[kind |-> "Return",
         lineno |-> 8, value |-> [kind |-> "Attribute", lineno |-> 8, value |-> [kind |-> "Name",
         lineno |-> 8, id |-> "self"], attr |-> "y"]]>>, lineno |-> 7, args |-> [kind |-> "arguments",
         args |-> <<[kind |-> "arg", lineno |-> 7, arg |-> "self"], [kind |-> "arg",
         lineno |-> 7, arg |-> "y"]>>, posonlyargs |-> <<>>, kwonlyargs |-> <<>>,
         kw_defaults |-> <<>>, defaults |-> <<>>], decorator_list |-> <<>>]>>],
     tree2 |-> [kind |-> "Module", body |-> <<[kind |-> "ClassDef", name |-> "C", body |-> <<[kind |-> "FunctionDef",
         name |-> "m", body |-> <<[kind |-> "Assign", lineno |-> 3, value |-> [kind |-> "Attribute",
         lineno |-> 3, value |-> [kind |-> "Name", lineno |-> 3, id |-> "other"],
         attr |-> "c"], targets |-> <<[kind |-> "Attribute", lineno |-> 3, value |-> [kind |-> "Attribute",
         lineno |-> 3, value |-> [kind |-> "Name", lineno |-> 3, id |-> "self"],
         attr |-> "a"], attr |-> "b"]>>], [kind |-> "Return", lineno |-> 4, value |-> [kind |-> "Name",
         lineno |-> 4, id |-> "self"]]>>, lineno |-> 2, args |-> [kind |-> "arguments",
         args |-> <<[kind |-> "Name", lineno |-> 2, id |-> "cls"], [kind |-> "Name",
         lineno |-> 2, id |-> "x"]>>, posonlyargs |-> <<>>, kwonlyargs |-> <<>>,
         kw_defaults |-> <<>>, defaults |-> <<>>], decorator_list |-> <<>>],
         [kind |-> "FunctionDef", name |-> "n", body |-> <<[kind |-> "Return",
         lineno |-> 6, value |-> [kind |-> "Attribute", lineno |-> 6, value |-> [kind |-> "Call",
         lineno |-> 6, args |-> <<[kind |-> "Attribute", lineno |-> 6, value |-> [kind |-> "Name",
         lineno |-> 6, id |-> "self"], attr |-> "x"]>>, keywords |-> <<>>, func |-> [kind |-> "Attribute",
         lineno |-> 6, value |-> [kind |-> "Name", lineno |-> 6, id |-> "self"],
         attr |-> "f"]], attr |-> "y"]]>>, lineno |-> 5, args |-> [kind |-> "arguments",
         args |-> <<[kind |-> "Name", lineno |-> 5, id |-> "self"]>>, posonlyargs |-> <<>>,
         kwonlyargs |-> <<>>, kw_defaults |-> <<>>, defaults |-> <<>>], decorator_list |-> <<>>]>>,
         lineno |-> 1, decorator_list |-> <<>>, bases |-> <<>>, keywords |-> <<>>],
         [kind |-> "FunctionDef", name |-> "g", body |-> <<[kind |-> "Return",
         lineno |-> 8, value |-> [kind |-> "Attribute", lineno |-> 8, value |-> [kind |-> "Name",
         lineno |-> 8, id |-> "self"], attr |-> "y"]]>>, lineno |-> 7, args |-> [kind |-> "arguments",
         args |-> <<[kind |-> "Name", lineno |-> 7, id |-> "self"], [kind |-> "Name",
         lineno |-> 7, id |-> "y"]>>, posonlyargs |-> <<>>, kwonlyargs |-> <<>>,
         kw_defaults |-> <<>>, defaults |-> <<>>], decorator_list |-> <<>>]>>]]

Prog_compound ==
    [s |-> "if a:\n    b = 1\nelif c:\n    pass\nelse:\n    d += 2\ntry:\n    import os\nexcept E as e:\n    raise E\nfinally:\n    del z\nwith open(f) as h:\n    assert h\n",
     name |-> "compound",
     tokens |-> <<
        Tok("name", "if", 1, 1, "if a:\n"),
        Tok("name", "a", 1, 1, "if a:\n"),
        Tok("op", ":", 1, 1, "if a:\n"),
        Tok("newline", "\n", 1, 1, "if a:\n"),
        Tok("indent", "    ", 2, 2, "    b = 1\n"),
        Tok("name", "b", 2, 2, "    b = 1\n"),
        Tok("op", "=", 2, 2, "    b = 1\n"),
        Tok("number", "1", 2, 2, "    b = 1\n"),
        Tok("newline", "\n", 2, 2, "    b = 1\n"),
        Tok("dedent", "", 3, 3, "elif c:\n"),
        Tok("name", "elif", 3, 3, "elif c:\n"),
        Tok("name", "c", 3, 3, "elif c:\n"),
        Tok("op", ":", 3, 3, "elif c:\n"),
        Tok("newline", "\n", 3, 3, "elif c:\n"),
        Tok("indent", "    ", 4, 4, "    pass\n"),
        Tok("name", "pass", 4, 4, "    pass\n"),
        Tok("newline", "\n", 4, 4, "    pass\n"),
        Tok("dedent", "", 5, 5, "else:\n"),
        Tok("name", "else", 5, 5, "else:\n"),
        Tok("op", ":", 5, 5, "else:\n"),
        Tok("newline", "\n", 5, 5, "else:\n"),
        Tok("indent", "    ", 6, 6, "    d += 2\n"),
        Tok("name", "d", 6, 6, "    d += 2\n"),
        Tok("op", "+=", 6, 6, "    d += 2\n"),
        Tok("number", "2", 6, 6, "    d += 2\n"),
        Tok("newline", "\n", 6, 6, "    d += 2\n"),
        Tok("dedent", "", 7, 7, "try:\n"),
        Tok("name", "try", 7, 7, "try:\n"),
        Tok("op", ":", 7, 7, "try:\n"),
        Tok("newline", "\n", 7, 7, "try:\n"),
        Tok("indent", "    ", 8, 8, "    import os\n"),
        Tok("name", "import", 8, 8, "    import os\n"),
        Tok("name", "os", 8, 8, "    import os\n"),
        Tok("newline", "\n", 8, 8, "    import os\n"),
        Tok("dedent", "", 9, 9, "except E as e:\n"),
        Tok("name", "except", 9, 9, "except E as e:\n"),
        Tok("name", "E", 9, 9, "except E as e:\n"),
        Tok("name", "as", 9, 9, "except E as e:\n"),
        Tok("name", "e", 9, 9, "except E as e:\n"),
        Tok("op", ":", 9, 9, "except E as e:\n"),
        Tok("newline", "\n", 9, 9, "except E as e:\n"),
        Tok("indent", "    ", 10, 10, "    raise E\n"),
        Tok("name", "raise", 10, 10, "    raise E\n"),
        Tok("name", "E", 10, 10, "    raise E\n"),
        Tok("newline", "\n", 10, 10, "    raise E\n"),
        Tok("dedent", "", 11, 11, "finally:\n"),
        Tok("name", "finally", 11, 11, "finally:\n"),
        Tok("op", ":", 11, 11, "finally:\n"),
        Tok("newline", "\n", 11, 11, "finally:\n"),
        Tok("indent", "    ", 12, 12, "    del z\n"),
        Tok("name", "del", 12, 12, "    del z\n"),
        Tok("name", "z", 12, 12, "    del z\n"),
        Tok("newline", "\n", 12, 12, "    del z\n"),
        Tok("dedent", "", 13, 13, "with open(f) as h:\n"),
        Tok("name", "with", 13, 13, "with open(f) as h:\n"),
        Tok("name", "open", 13, 13, "with open(f) as h:\n"),
        Tok("op", "(", 13, 13, "with open(f) as h:\n"),
        Tok("name", "f", 13, 13, "with open(f) as h:\n"),
        Tok("op", ")", 13, 13, "with open(f) as h:\n"),
        Tok("name", "as", 13, 13, "with open(f) as h:\n"),
        Tok("name", "h", 13, 13, "with open(f) as h:\n"),
        Tok("op", ":", 13, 13, "with open(f) as h:\n"),
        Tok("newline", "\n", 13, 13, "with open(f) as h:\n"),
        Tok("indent", "    ", 14, 14, "    assert h\n"),
        Tok("name", "assert", 14, 14, "    assert h\n"),
        Tok("name", "h", 14, 14, "    assert h\n"),
        Tok("newline", "\n", 14, 14, "    assert h\n"),
        Tok("dedent", "", 15, 15, ""),
        Tok("endmarker", "", 15, 15, "")
     >>,
     linenos |-> {1, 2, 3, 4, 6, 7, 8, 9, 10, 12, 13, 14},
     tree3 |-> [kind |-> "Module", body |-> <<[kind |-> "If", body |-> <<[kind |-> "Assign",
         lineno |-> 2, value |-> [n |-> 1, kind |-> "Num", lineno |-> 2], targets |-> <<[kind |-> "Name",
         lineno |-> 2, id |-> "b"]>>]>>, lineno |-> 1, orelse |-> <<[kind |-> "If",
         body |-> <<[kind |-> "Pass", lineno |-> 4]>>, lineno |-> 3, orelse |-> <<[kind |-> "AugAssign",
         lineno |-> 6, value |-> [n |-> 2, kind |-> "Num", lineno |-> 6], op |-> [kind |-> "Add"],
         target |-> [kind |-> "Name", lineno |-> 6, id |-> "d"]]>>, test |-> [kind |-> "Name",
         lineno |-> 3, id |-> "c"]]>>, test |-> [kind |-> "Name", lineno |-> 1,
         id |-> "a"]], [kind |-> "Try", body |-> <<[kind |-> "Import", lineno |-> 8,
         names |-> <<[kind |-> "alias", name |-> "os", lineno |-> 8]>>]>>, lineno |-> 7,
         orelse |-> <<>>, handlers |-> <<[kind |-> "ExceptHandler", name |-> "e",
         body |-> <<[kind |-> "Raise", lineno |-> 10, exc |-> [kind |-> "Name",
         lineno |-> 10, id |-> "E"]]>>, lineno |-> 9, type |-> [kind |-> "Name",
         lineno |-> 9, id |-> "E"]]>>, finalbody |-> <<[kind |-> "Delete", lineno |-> 12,
         targets |-> <<[kind |-> "Name", lineno |-> 12, id |-> "z"]>>]>>], [kind |-> "With",
         body |-> <<[kind |-> "Assert", lineno |-> 14, test |-> [kind |-> "Name",
         lineno |-> 14, id |-> "h"]]>>, lineno |-> 13, items |-> <<[kind |-> "withitem",
         context_expr |-> [kind |-> "Call", lineno |-> 13, args |-> <<[kind |-> "Name",
         lineno |-> 13, id |-> "f"]>>, keywords |-> <<>>, func |-> [kind |-> "Name",
         lineno |-> 13, id |-> "open"]], optional_vars |-> [kind |-> "Name",
         lineno |-> 13, id |-> "h"]]>>]>>],
     tree2 |-> [kind |-> "Module", body |-> <<[kind |-> "If", body |-> <<[kind |-> "Assign",
         lineno |-> 2, value |-> [n |-> 1, kind |-> "Num", lineno |-> 2], targets |-> <<[kind |-> "Name",
         lineno |-> 2, id |-> "b"]>>]>>, lineno |-> 1, orelse |-> <<[kind |-> "If",
         body |-> <<[kind |-> "Pass", lineno |-> 4]>>, lineno |-> 3, orelse |-> <<[kind |-> "AugAssign",
         lineno |-> 6, value |-> [n |-> 2, kind |-> "Num", lineno |-> 6], op |-> [kind |-> "Add"],
         target |-> [kind |-> "Name", lineno |-> 6, id |-> "d"]]>>, test |-> [kind |-> "Name",
         lineno |-> 3, id |-> "c"]]>>, test |-> [kind |-> "Name", lineno |-> 1,
         id |-> "a"]], [kind |-> "TryFinally", body |-> <<[kind |-> "TryExcept",
         body |-> <<[kind |-> "Import", lineno |-> 8, names |-> <<[kind |-> "alias",
         name |-> "os", lineno |-> 8]>>]>>, lineno |-> 7, orelse |-> <<>>, handlers |-> <<[kind |-> "ExceptHandler",
         name |-> [kind |-> "Name", lineno |-> 9, id |-> "e"], body |-> <<[kind |-> "Raise",
         lineno |-> 10, type |-> [kind |-> "Name", lineno |-> 10, id |-> "E"]]>>,
         lineno |-> 9, type |-> [kind |-> "Name", lineno |-> 9, id |-> "E"]]>>]>>,
         lineno |-> 7, finalbody |-> <<[kind |-> "Delete", lineno |-> 12, targets |-> <<[kind |-> "Name",
         lineno |-> 12, id |-> "z"]>>]>>], [kind |-> "With", body |-> <<[kind |-> "Assert",
         lineno |-> 14, test |-> [kind |-> "Name", lineno |-> 14, id |-> "h"]]>>,
         lineno |-> 13, context_expr |-> [kind |-> "Call", lineno |-> 13, args |-> <<[kind |-> "Name",
         lineno |-> 13, id |-> "f"]>>, keywords |-> <<>>, func |-> [kind |-> "Name",
         lineno |-> 13, id |-> "open"]], optional_vars |-> [kind |-> "Name",
         lineno |-> 13, id |-> "h"]]>>]]

Prog_simple ==
    [s |-> "from a import b as c\nimport p.q\ndef f():\n    yield 1\n    return\n",
     name |-> "simple",
     tokens |-> <<
        Tok("name", "from", 1, 1, "from a import b as c\n"),
        Tok("name", "a", 1, 1, "from a import b as c\n"),
        Tok("name", "import", 1, 1, "from a import b as c\n"),
        Tok("name", "b", 1, 1, "from a import b as c\n"),
        Tok("name", "as", 1, 1, "from a import b as c\n"),
        Tok("name", "c", 1, 1, "from a import b as c\n"),
        Tok("newline", "\n", 1, 1, "from a import b as c\n"),
        Tok("name", "import", 2, 2, "import p.q\n"),
        Tok("name", "p", 2, 2, "import p.q\n"),
        Tok("op", ".", 2, 2, "import p.q\n"),
        Tok("name", "q", 2, 2, "import p.q\n"),
        Tok("newline", "\n", 2, 2, "import p.q\n"),
        Tok("name", "def", 3, 3, "def f():\n"),
        Tok("name", "f", 3, 3, "def f():\n"),
        Tok("op", "(", 3, 3, "def f():\n"),
        Tok("op", ")", 3, 3, "def f():\n"),
        Tok("op", ":", 3, 3, "def f():\n"),
        Tok("newline", "\n", 3, 3, "def f():\n"),
        Tok("indent", "    ", 4, 4, "    yield 1\n"),
        Tok("name", "yield", 4, 4, "    yield 1\n"),
        Tok("number", "1", 4, 4, "    yield 1\n"),
        Tok("newline", "\n", 4, 4, "    yield 1\n"),
        Tok("name", "return", 5, 5, "    return\n"),
        Tok("newline", "\n", 5, 5, "    return\n"),
        Tok("dedent", "", 6, 6, ""),
        Tok("endmarker", "", 6, 6, "")
     >>,
     linenos |-> {1, 2, 3, 4, 5},
     tree3 |-> [kind |-> "Module", body |-> <<[kind |-> "ImportFrom", lineno |-> 1, names |-> <<[kind |-> "alias",
         name |-> "b", lineno |-> 1, asname |-> "c"]>>, module |-> "a", level |-> 0],
         [kind |-> "Import", lineno |-> 2, names |-> <<[kind |-> "alias", name |-> "p.q",
         lineno |-> 2]>>], [kind |-> "FunctionDef", name |-> "f", body |-> <<[kind |-> "Expr",
         lineno |-> 4, value |-> [kind |-> "Yield", lineno |-> 4, value |-> [n |-> 1,
         kind |-> "Num", lineno |-> 4]]], [kind |-> "Return", lineno |-> 5]>>,
         lineno |-> 3, args |-> [kind |-> "arguments", args |-> <<>>, posonlyargs |-> <<>>,
         kwonlyargs |-> <<>>, kw_defaults |-> <<>>, defaults |-> <<>>], decorator_list |-> <<>>]>>],
     tree2 |-> [kind |-> "Module", body |-> <<[kind |-> "ImportFrom", lineno |-> 1, names |-> <<[kind |-> "alias",
         name |-> "b", lineno |-> 1, asname |-> "c"]>>, module |-> "a", level |-> 0],
         [kind |-> "Import", lineno |-> 2, names |-> <<[kind |-> "alias", name |-> "p.q",
         lineno |-> 2]>>], [kind |-> "FunctionDef", name |-> "f", body |-> <<[kind |-> "Expr",
         lineno |-> 4, value |-> [kind |-> "Yield", lineno |-> 4, value |-> [n |-> 1,
         kind |-> "Num", lineno |-> 4]]], [kind |-> "Return", lineno |-> 5]>>,
         lineno |-> 3, args |-> [kind |-> "arguments", args |-> <<>>, posonlyargs |-> <<>>,
         kwonlyargs |-> <<>>, kw_defaults |-> <<>>, defaults |-> <<>>], decorator_list |-> <<>>]>>]]

Prog_matmul ==
    [s |-> "x = a @ b\ny = not a\n",
     name |-> "matmul",
     tokens |-> <<
        Tok("name", "x", 1, 1, "x = a @ b\n"),
        Tok("op", "=", 1, 1, "x = a @ b\n"),
        Tok("name", "a", 1, 1, "x = a @ b\n"),
        Tok("op", "@", 1, 1, "x = a @ b\n"),
        Tok("name", "b", 1, 1, "x = a @ b\n"),
        Tok("newline", "\n", 1, 1, "x = a @ b\n"),
        Tok("name", "y", 2, 2, "y = not a\n"),
        Tok("op", "=", 2, 2, "y = not a\n"),
        Tok("name", "not", 2, 2, "y = not a\n"),
        Tok("name", "a", 2, 2, "y = not a\n"),
        Tok("newline", "\n", 2, 2, "y = not a\n"),
        Tok("endmarker", "", 3, 3, "")
     >>,
     linenos |-> {1, 2},
     tree3 |-> [kind |-> "Module", body |-> <<[kind |-> "Assign", lineno |-> 1, value |-> [kind |-> "BinOp",
         lineno |-> 1, left |-> [kind |-> "Name", lineno |-> 1, id |-> "a"],
         op |-> [kind |-> "MatMult"], right |-> [kind |-> "Name", lineno |-> 1,
         id |-> "b"]], targets |-> <<[kind |-> "Name", lineno |-> 1, id |-> "x"]>>],
         [kind |-> "Assign", lineno |-> 2, value |-> [kind |-> "UnaryOp", lineno |-> 2,
         op |-> [kind |-> "Not"], operand |-> [kind |-> "Name", lineno |-> 2,
         id |-> "a"]], targets |-> <<[kind |-> "Name", lineno |-> 2, id |-> "y"]>>]>>],
     tree2 |-> [kind |-> "Module", body |-> <<[kind |-> "Assign", lineno |-> 1, value |-> [kind |-> "BinOp",
         lineno |-> 1, left |-> [kind |-> "Name", lineno |-> 1, id |-> "a"],
         op |-> [kind |-> "MatMult"], right |-> [kind |-> "Name", lineno |-> 1,
         id |-> "b"]], targets |-> <<[kind |-> "Name", lineno |-> 1, id |-> "x"]>>],
         [kind |-> "Assign", lineno |-> 2, value |-> [kind |-> "UnaryOp", lineno |-> 2,
         op |-> [kind |-> "Not"], operand |-> [kind |-> "Name", lineno |-> 2,
         id |-> "a"]], targets |-> <<[kind |-> "Name", lineno |-> 2, id |-> "y"]>>]>>]]

Prog_trailing ==
    [s |-> "x = \"\"\"a\n#b\"\"\"; y = 1 # c\nz = 2 # d\n",
     name |-> "trailing",
     tokens |-> <<
        Tok("name", "x", 1, 1, "x = \"\"\"a\n"),
        Tok("op", "=", 1, 1, "x = \"\"\"a\n"),
        Tok("string", "\"\"\"a\n#b\"\"\"", 1, 2, "x = \"\"\"a\n#b\"\"\"; y = 1 # c\n"),
        Tok("op", ";", 2, 2, "#b\"\"\"; y = 1 # c\n"),
        Tok("name", "y", 2, 2, "#b\"\"\"; y = 1 # c\n"),
        Tok("op", "=", 2, 2, "#b\"\"\"; y = 1 # c\n"),
        Tok("number", "1", 2, 2, "#b\"\"\"; y = 1 # c\n"),
        Tok("comment", "# c", 2, 2, "#b\"\"\"; y = 1 # c\n"),
        Tok("newline", "\n", 2, 2, "#b\"\"\"; y = 1 # c\n"),
        Tok("name", "z", 3, 3, "z = 2 # d\n"),
        Tok("op", "=", 3, 3, "z = 2 # d\n"),
        Tok("number", "2", 3, 3, "z = 2 # d\n"),
        Tok("comment", "# d", 3, 3, "z = 2 # d\n"),
        Tok("newline", "\n", 3, 3, "z = 2 # d\n"),
        Tok("endmarker", "", 4, 4, "")
     >>,
     linenos |-> {1, 2, 3},
     tree3 |-> [kind |-> "Module", body |-> <<[kind |-> "Assign", lineno |-> 1, value |-> [s |-> "a\n#b",
         kind |-> "Str", lineno |-> 2], targets |-> <<[kind |-> "Name", lineno |-> 1,
         id |-> "x"]>>], [kind |-> "Assign", lineno |-> 2, value |-> [n |-> 1,
         kind |-> "Num", lineno |-> 2], targets |-> <<[kind |-> "Name", lineno |-> 2,
         id |-> "y"]>>], [kind |-> "Assign", lineno |-> 3, value |-> [n |-> 2,
         kind |-> "Num", lineno |-> 3], targets |-> <<[kind |-> "Name", lineno |-> 3,
         id |-> "z"]>>]>>],
     tree2 |-> [kind |-> "Module", body |-> <<[kind |-> "Assign", lineno |-> 1, value |-> [s |-> "a\n#b",
         kind |-> "Str", lineno |-> 2], targets |-> <<[kind |-> "Name", lineno |-> 1,
         id |-> "x"]>>], [kind |-> "Assign", lineno |-> 2, value |-> [n |-> 1,
         kind |-> "Num", lineno |-> 2], targets |-> <<[kind |-> "Name", lineno |-> 2,
         id |-> "y"]>>], [kind |-> "Assign", lineno |-> 3, value |-> [n |-> 2,
         kind |-> "Num", lineno |-> 3], targets |-> <<[kind |-> "Name", lineno |-> 3,
         id |-> "z"]>>]>>]]

Prog_params ==
    [s |-> "def f(a, b=1, *c, **d):\n    # note\n    pass\ndef g(*v):\n    pass\ndef h(a=x, b=2):\n    pass\n",
     name |-> "params",
     tokens |-> <<
        Tok("name", "def", 1, 1, "def f(a, b=1, *c, **d):\n"),
        Tok("name", "f", 1, 1, "def f(a, b=1, *c, **d):\n"),
        Tok("op", "(", 1, 1, "def f(a, b=1, *c, **d):\n"),
        Tok("name", "a", 1, 1, "def f(a, b=1, *c, **d):\n"),
        Tok("op", ",", 1, 1, "def f(a, b=1, *c, **d):\n"),
        Tok("name", "b", 1, 1, "def f(a, b=1, *c, **d):\n"),
        Tok("op", "=", 1, 1, "def f(a, b=1, *c, **d):\n"),
        Tok("number", "1", 1, 1, "def f(a, b=1, *c, **d):\n"),
        Tok("op", ",", 1, 1, "def f(a, b=1, *c, **d):\n"),
        Tok("op", "*", 1, 1, "def f(a, b=1, *c, **d):\n"),
        Tok("name", "c", 1, 1, "def f(a, b=1, *c, **d):\n"),
        Tok("op", ",", 1, 1, "def f(a, b=1, *c, **d):\n"),
        Tok("op", "**", 1, 1, "def f(a, b=1, *c, **d):\n"),
        Tok("name", "d", 1, 1, "def f(a, b=1, *c, **d):\n"),
        Tok("op", ")", 1, 1, "def f(a, b=1, *c, **d):\n"),
        Tok("op", ":", 1, 1, "def f(a, b=1, *c, **d):\n"),
        Tok("newline", "\n", 1, 1, "def f(a, b=1, *c, **d):\n"),
        Tok("comment", "# note", 2, 2, "    # note\n"),
        Tok("nl", "\n", 2, 2, "    # note\n"),
        Tok("indent", "    ", 3, 3, "    pass\n"),
        Tok("name", "pass", 3, 3, "    pass\n"),
        Tok("newline", "\n", 3, 3, "    pass\n"),
        Tok("dedent", "", 4, 4, "def g(*v):\n"),
        Tok("name", "def", 4, 4, "def g(*v):\n"),
        Tok("name", "g", 4, 4, "def g(*v):\n"),
        Tok("op", "(", 4, 4, "def g(*v):\n"),
        Tok("op", "*", 4, 4, "def g(*v):\n"),
        Tok("name", "v", 4, 4, "def g(*v):\n"),
        Tok("op", ")", 4, 4, "def g(*v):\n"),
        Tok("op", ":", 4, 4, "def g(*v):\n"),
        Tok("newline", "\n", 4, 4, "def g(*v):\n"),
        Tok("indent", "    ", 5, 5, "    pass\n"),
        Tok("name", "pass", 5, 5, "    pass\n"),
        Tok("newline", "\n", 5, 5, "    pass\n"),
        Tok("dedent", "", 6, 6, "def h(a=x, b=2):\n"),
        Tok("name", "def", 6, 6, "def h(a=x, b=2):\n"),
        Tok("name", "h", 6, 6, "def h(a=x, b=2):\n"),
        Tok("op", "(", 6, 6, "def h(a=x, b=2):\n"),
        Tok("name", "a", 6, 6, "def h(a=x, b=2):\n"),
        Tok("op", "=", 6, 6, "def h(a=x, b=2):\n"),
        Tok("name", "x", 6, 6, "def h(a=x, b=2):\n"),
        Tok("op", ",", 6, 6, "def h(a=x, b=2):\n"),
        Tok("name", "b", 6, 6, "def h(a=x, b=2):\n"),
        Tok("op", "=", 6, 6, "def h(a=x, b=2):\n"),
        Tok("number", "2", 6, 6, "def h(a=x, b=2):\n"),
        Tok("op", ")", 6, 6, "def h(a=x, b=2):\n"),
        Tok("op", ":", 6, 6, "def h(a=x, b=2):\n"),
        Tok("newline", "\n", 6, 6, "def h(a=x, b=2):\n"),
        Tok("indent", "    ", 7, 7, "    pass\n"),
        Tok("name", "pass", 7, 7, "    pass\n"),
        Tok("newline", "\n", 7, 7, "    pass\n"),
        Tok("dedent", "", 8, 8, ""),
        Tok("endmarker", "", 8, 8, "")
     >>,
     linenos |-> {1, 3, 4, 5, 6, 7},
     tree3 |-> [kind |-> "Module", body |-> <<[kind |-> "FunctionDef", name |-> "f", body |-> <<[kind |-> "Pass",
         lineno |-> 3]>>, lineno |-> 1, args |-> [kind |-> "arguments", args |-> <<[kind |-> "arg",
         lineno |-> 1, arg |-> "a"], [kind |-> "arg", lineno |-> 1, arg |-> "b"]>>,
         posonlyargs |-> <<>>, kwonlyargs |-> <<>>, kw_defaults |-> <<>>, defaults |-> <<[n |-> 1,
         kind |-> "Num", lineno |-> 1]>>, vararg |-> [kind |-> "arg", lineno |-> 1,
         arg |-> "c"], kwarg |-> [kind |-> "arg", lineno |-> 1, arg |-> "d"]],
         decorator_list |-> <<>>], [kind |-> "FunctionDef", name |-> "g", body |-> <<[kind |-> "Pass",
         lineno |-> 5]>>, lineno |-> 4, args |-> [kind |-> "arguments", args |-> <<>>,
         posonlyargs |-> <<>>, kwonlyargs |-> <<>>, kw_defaults |-> <<>>, defaults |-> <<>>,
         vararg |-> [kind |-> "arg", lineno |-> 4, arg |-> "v"]], decorator_list |-> <<>>],
         [kind |-> "FunctionDef", name |-> "h", body |-> <<[kind |-> "Pass",
         lineno |-> 7]>>, lineno |-> 6, args |-> [kind |-> "arguments", args |-> <<[kind |-> "arg",
         lineno |-> 6, arg |-> "a"], [kind |-> "arg", lineno |-> 6, arg |-> "b"]>>,
         posonlyargs |-> <<>>, kwonlyargs |-> <<>>, kw_defaults |-> <<>>, defaults |-> <<[kind |-> "Name",
         lineno |-> 6, id |-> "x"], [n |-> 2, kind |-> "Num", lineno |-> 6]>>],
         decorator_list |-> <<>>]>>],
     tree2 |-> [kind |-> "Module", body |-> <<[kind |-> "FunctionDef", name |-> "f", body |-> <<[kind |-> "Pass",
         lineno |-> 3]>>, lineno |-> 1, args |-> [kind |-> "arguments", args |-> <<[kind |-> "Name",
         lineno |-> 1, id |-> "a"], [kind |-> "Name", lineno |-> 1, id |-> "b"]>>,
         posonlyargs |-> <<>>, kwonlyargs |-> <<>>, kw_defaults |-> <<>>, defaults |-> <<[n |-> 1,
         kind |-> "Num", lineno |-> 1]>>, vararg |-> "c", kwarg |-> "d"], decorator_list |-> <<>>],
         [kind |-> "FunctionDef", name |-> "g", body |-> <<[kind |-> "Pass",
         lineno |-> 5]>>, lineno |-> 4, args |-> [kind |-> "arguments", args |-> <<>>,
         posonlyargs |-> <<>>, kwonlyargs |-> <<>>, kw_defaults |-> <<>>, defaults |-> <<>>,
         vararg |-> "v"], decorator_list |-> <<>>], [kind |-> "FunctionDef",
         name |-> "h", body |-> <<[kind |-> "Pass", lineno |-> 7]>>, lineno |-> 6,
         args |-> [kind |-> "arguments", args |-> <<[kind |-> "Name", lineno |-> 6,
         id |-> "a"], [kind |-> "Name", lineno |-> 6, id |-> "b"]>>, posonlyargs |-> <<>>,
         kwonlyargs |-> <<>>, kw_defaults |-> <<>>, defaults |-> <<[kind |-> "Name",
         lineno |-> 6, id |-> "x"], [n |-> 2, kind |-> "Num", lineno |-> 6]>>],
         decorator_list |-> <<>>]>>]]

Prog_relimport ==
    [s |-> "from . import x\nimport a as b, c\nfrom .m import n as o, p\n",
     name |-> "relimport",
     tokens |-> <<
        Tok("name", "from", 1, 1, "from . import x\n"),
        Tok("op", ".", 1, 1, "from . import x\n"),
        Tok("name", "import", 1, 1, "from . import x\n"),
        Tok("name", "x", 1, 1, "from . import x\n"),
        Tok("newline", "\n", 1, 1, "from . import x\n"),
        Tok("name", "import", 2, 2, "import a as b, c\n"),
        Tok("name", "a", 2, 2, "import a as b, c\n"),
        Tok("name", "as", 2, 2, "import a as b, c\n"),
        Tok("name", "b", 2, 2, "import a as b, c\n"),
        Tok("op", ",", 2, 2, "import a as b, c\n"),
        Tok("name", "c", 2, 2, "import a as b, c\n"),
        Tok("newline", "\n", 2, 2, "import a as b, c\n"),
        Tok("name", "from", 3, 3, "from .m import n as o, p\n"),
        Tok("op", ".", 3, 3, "from .m import n as o, p\n"),
        Tok("name", "m", 3, 3, "from .m import n as o, p\n"),
        Tok("name", "import", 3, 3, "from .m import n as o, p\n"),
        Tok("name", "n", 3, 3, "from .m import n as o, p\n"),
        Tok("name", "as", 3, 3, "from .m import n as o, p\n"),
        Tok("name", "o", 3, 3, "from .m import n as o, p\n"),
        Tok("op", ",", 3, 3, "from .m import n as o, p\n"),
        Tok("name", "p", 3, 3, "from .m import n as o, p\n"),
        Tok("newline", "\n", 3, 3, "from .m import n as o, p\n"),
        Tok("endmarker", "", 4, 4, "")
     >>,
     linenos |-> {1, 2, 3},
     tree3 |-> [kind |-> "Module", body |-> <<[kind |-> "ImportFrom", lineno |-> 1, names |-> <<[kind |-> "alias",
         name |-> "x", lineno |-> 1]>>, level |-> 1], [kind |-> "Import", lineno |-> 2,
         names |-> <<[kind |-> "alias", name |-> "a", lineno |-> 2, asname |-> "b"],
         [kind |-> "alias", name |-> "c", lineno |-> 2]>>], [kind |-> "ImportFrom",
         lineno |-> 3, names |-> <<[kind |-> "alias", name |-> "n", lineno |-> 3,
         asname |-> "o"], [kind |-> "alias", name |-> "p", lineno |-> 3]>>, module |-> "m",
         level |-> 1]>>],
     tree2 |-> [kind |-> "Module", body |-> <<[kind |-> "ImportFrom", lineno |-> 1, names |-> <<[kind |-> "alias",
         name |-> "x", lineno |-> 1]>>, level |-> 1], [kind |-> "Import", lineno |-> 2,
         names |-> <<[kind |-> "alias", name |-> "a", lineno |-> 2, asname |-> "b"],
         [kind |-> "alias", name |-> "c", lineno |-> 2]>>], [kind |-> "ImportFrom",
         lineno |-> 3, names |-> <<[kind |-> "alias", name |-> "n", lineno |-> 3,
         asname |-> "o"], [kind |-> "alias", name |-> "p", lineno |-> 3]>>, module |-> "m",
         level |-> 1]>>]]

Prog_dictlines ==
    [s |-> "d = {\n    # one\n    \"a\": 1,\n\n    \"b\": 2, # t\n}\n# after\nz = 3\n",
     name |-> "dictlines",
     tokens |-> <<
        Tok("name", "d", 1, 1, "d = {\n"),
        Tok("op", "=", 1, 1, "d = {\n"),
        Tok("op", "{", 1, 1, "d = {\n"),
        Tok("nl", "\n", 1, 1, "d = {\n"),
        Tok("comment", "# one", 2, 2, "    # one\n"),
        Tok("nl", "\n", 2, 2, "    # one\n"),
        Tok("string", "\"a\"", 3, 3, "    \"a\": 1,\n"),
        Tok("op", ":", 3, 3, "    \"a\": 1,\n"),
        Tok("number", "1", 3, 3, "    \"a\": 1,\n"),
        Tok("op", ",", 3, 3, "    \"a\": 1,\n"),
        Tok("nl", "\n", 3, 3, "    \"a\": 1,\n"),
        Tok("nl", "\n", 4, 4, "\n"),
        Tok("string", "\"b\"", 5, 5, "    \"b\": 2, # t\n"),
        Tok("op", ":", 5, 5, "    \"b\": 2, # t\n"),
        Tok("number", "2", 5, 5, "    \"b\": 2, # t\n"),
        Tok("op", ",", 5, 5, "    \"b\": 2, # t\n"),
        Tok("comment", "# t", 5, 5, "    \"b\": 2, # t\n"),
        Tok("nl", "\n", 5, 5, "    \"b\": 2, # t\n"),
        Tok("op", "}", 6, 6, "}\n"),
        Tok("newline", "\n", 6, 6, "}\n"),
        Tok("comment", "# after", 7, 7, "# after\n"),
        Tok("nl", "\n", 7, 7, "# after\n"),
        Tok("name", "z", 8, 8, "z = 3\n"),
        Tok("op", "=", 8, 8, "z = 3\n"),
        Tok("number", "3", 8, 8, "z = 3\n"),
        Tok("newline", "\n", 8, 8, "z = 3\n"),
        Tok("endmarker", "", 9, 9, "")
     >>,
     linenos |-> {1, 3, 5, 8},
     tree3 |-> [kind |-> "Module", body |-> <<[kind |-> "Assign", lineno |-> 1, value |-> [kind |-> "Dict",
         lineno |-> 1, keys |-> <<[s |-> "a", kind |-> "Str", lineno |-> 3],
         [s |-> "b", kind |-> "Str", lineno |-> 5]>>, values |-> <<[n |-> 1,
         kind |-> "Num", lineno |-> 3], [n |-> 2, kind |-> "Num", lineno |-> 5]>>],
         targets |-> <<[kind |-> "Name", lineno |-> 1, id |-> "d"]>>], [kind |-> "Assign",
         lineno |-> 8, value |-> [n |-> 3, kind |-> "Num", lineno |-> 8], targets |-> <<[kind |-> "Name",
         lineno |-> 8, id |-> "z"]>>]>>],
     tree2 |-> [kind |-> "Module", body |-> <<[kind |-> "Assign", lineno |-> 1, value |-> [kind |-> "Dict",
         lineno |-> 1, keys |-> <<[s |-> "a", kind |-> "Str", lineno |-> 3],
         [s |-> "b", kind |-> "Str", lineno |-> 5]>>, values |-> <<[n |-> 1,
         kind |-> "Num", lineno |-> 3], [n |-> 2, kind |-> "Num", lineno |-> 5]>>],
         targets |-> <<[kind |-> "Name", lineno |-> 1, id |-> "d"]>>], [kind |-> "Assign",
         lineno |-> 8, value |-> [n |-> 3, kind |-> "Num", lineno |-> 8], targets |-> <<[kind |-> "Name",
         lineno |-> 8, id |-> "z"]>>]>>]]

Prog_withstr ==
    [s |-> "with open(\"f\") as h: x = \"g\"\ny = \"a\" \"b\"; z = \"c\"\n",
     name |-> "withstr",
     tokens |-> <<
        Tok("name", "with", 1, 1, "with open(\"f\") as h: x = \"g\"\n"),
        Tok("name", "open", 1, 1, "with open(\"f\") as h: x = \"g\"\n"),
        Tok("op", "(", 1, 1, "with open(\"f\") as h: x = \"g\"\n"),
        Tok("string", "\"f\"", 1, 1, "with open(\"f\") as h: x = \"g\"\n"),
        Tok("op", ")", 1, 1, "with open(\"f\") as h: x = \"g\"\n"),
        Tok("name", "as", 1, 1, "with open(\"f\") as h: x = \"g\"\n"),
        Tok("name", "h", 1, 1, "with open(\"f\") as h: x = \"g\"\n"),
        Tok("op", ":", 1, 1, "with open(\"f\") as h: x = \"g\"\n"),
        Tok("name", "x", 1, 1, "with open(\"f\") as h: x = \"g\"\n"),
        Tok("op", "=", 1, 1, "with open(\"f\") as h: x = \"g\"\n"),
        Tok("string", "\"g\"", 1, 1, "with open(\"f\") as h: x = \"g\"\n"),
        Tok("newline", "\n", 1, 1, "with open(\"f\") as h: x = \"g\"\n"),
        Tok("name", "y", 2, 2, "y = \"a\" \"b\"; z = \"c\"\n"),
        Tok("op", "=", 2, 2, "y = \"a\" \"b\"; z = \"c\"\n"),
        Tok("string", "\"a\"", 2, 2, "y = \"a\" \"b\"; z = \"c\"\n"),
        Tok("string", "\"b\"", 2, 2, "y = \"a\" \"b\"; z = \"c\"\n"),
        Tok("op", ";", 2, 2, "y = \"a\" \"b\"; z = \"c\"\n"),
        Tok("name", "z", 2, 2, "y = \"a\" \"b\"; z = \"c\"\n"),
        Tok("op", "=", 2, 2, "y = \"a\" \"b\"; z = \"c\"\n"),
        Tok("string", "\"c\"", 2, 2, "y = \"a\" \"b\"; z = \"c\"\n"),
        Tok("newline", "\n", 2, 2, "y = \"a\" \"b\"; z = \"c\"\n"),
        Tok("endmarker", "", 3, 3, "")
     >>,
     linenos |-> {1, 2},
     tree3 |-> [kind |-> "Module", body |-> <<[kind |-> "With", body |-> <<[kind |-> "Assign",
         lineno |-> 1, value |-> [s |-> "g", kind |-> "Str", lineno |-> 1], targets |-> <<[kind |-> "Name",
         lineno |-> 1, id |-> "x"]>>]>>, lineno |-> 1, items |-> <<[kind |-> "withitem",
         context_expr |-> [kind |-> "Call", lineno |-> 1, args |-> <<[s |-> "f",
         kind |-> "Str", lineno |-> 1]>>, keywords |-> <<>>, func |-> [kind |-> "Name",
         lineno |-> 1, id |-> "open"]], optional_vars |-> [kind |-> "Name", lineno |-> 1,
         id |-> "h"]]>>], [kind |-> "Assign", lineno |-> 2, value |-> [s |-> "ab",
         kind |-> "Str", lineno |-> 2], targets |-> <<[kind |-> "Name", lineno |-> 2,
         id |-> "y"]>>], [kind |-> "Assign", lineno |-> 2, value |-> [s |-> "c",
         kind |-> "Str", lineno |-> 2], targets |-> <<[kind |-> "Name", lineno |-> 2,
         id |-> "z"]>>]>>],
     tree2 |-> [kind |-> "Module", body |-> <<[kind |-> "With", body |-> <<[kind |-> "Assign",
         lineno |-> 1, value |-> [s |-> "g", kind |-> "Str", lineno |-> 1], targets |-> <<[kind |-> "Name",
         lineno |-> 1, id |-> "x"]>>]>>, lineno |-> 1, context_expr |-> [kind |-> "Call",
         lineno |-> 1, args |-> <<[s |-> "f", kind |-> "Str", lineno |-> 1]>>,
         keywords |-> <<>>, func |-> [kind |-> "Name", lineno |-> 1, id |-> "open"]],
         optional_vars |-> [kind |-> "Name", lineno |-> 1, id |-> "h"]], [kind |-> "Assign",
         lineno |-> 2, value |-> [s |-> "ab", kind |-> "Str", lineno |-> 2],
         targets |-> <<[kind |-> "Name", lineno |-> 2, id |-> "y"]>>], [kind |-> "Assign",
         lineno |-> 2, value |-> [s |-> "c", kind |-> "Str", lineno |-> 2], targets |-> <<[kind |-> "Name",
         lineno |-> 2, id |-> "z"]>>]>>]]

Prog_twice ==
    [s |-> "def f():\n    yield 1 # c\nwhile a: # w\n    b\nelse:\n    c\n",
     name |-> "twice",
     tokens |-> <<
        Tok("name", "def", 1, 1, "def f():\n"),
        Tok("name", "f", 1, 1, "def f():\n"),
        Tok("op", "(", 1, 1, "def f():\n"),
        Tok("op", ")", 1, 1, "def f():\n"),
        Tok("op", ":", 1, 1, "def f():\n"),
        Tok("newline", "\n", 1, 1, "def f():\n"),
        Tok("indent", "    ", 2, 2, "    yield 1 # c\n"),
        Tok("name", "yield", 2, 2, "    yield 1 # c\n"),
        Tok("number", "1", 2, 2, "    yield 1 # c\n"),
        Tok("comment", "# c", 2, 2, "    yield 1 # c\n"),
        Tok("newline", "\n", 2, 2, "    yield 1 # c\n"),
        Tok("dedent", "", 3, 3, "while a: # w\n"),
        Tok("name", "while", 3, 3, "while a: # w\n"),
        Tok("name", "a", 3, 3, "while a: # w\n"),
        Tok("op", ":", 3, 3, "while a: # w\n"),
        Tok("comment", "# w", 3, 3, "while a: # w\n"),
        Tok("newline", "\n", 3, 3, "while a: # w\n"),
        Tok("indent", "    ", 4, 4, "    b\n"),
        Tok("name", "b", 4, 4, "    b\n"),
        Tok("newline", "\n", 4, 4, "    b\n"),
        Tok("dedent", "", 5, 5, "else:\n"),
        Tok("name", "else", 5, 5, "else:\n"),
        Tok("op", ":", 5, 5, "else:\n"),
        Tok("newline", "\n", 5, 5, "else:\n"),
        Tok("indent", "    ", 6, 6, "    c\n"),
        Tok("name", "c", 6, 6, "    c\n"),
        Tok("newline", "\n", 6, 6, "    c\n"),
        Tok("dedent", "", 7, 7, ""),
        Tok("endmarker", "", 7, 7, "")
     >>,
     linenos |-> {1, 2, 3, 4, 6},
     tree3 |-> [kind |-> "Module", body |-> <<[kind |-> "FunctionDef", name |-> "f", body |-> <<[kind |-> "Expr",
         lineno |-> 2, value |-> [kind |-> "Yield", lineno |-> 2, value |-> [n |-> 1,
         kind |-> "Num", lineno |-> 2]]]>>, lineno |-> 1, args |-> [kind |-> "arguments",
         args |-> <<>>, posonlyargs |-> <<>>, kwonlyargs |-> <<>>, kw_defaults |-> <<>>,
         defaults |-> <<>>], decorator_list |-> <<>>], [kind |-> "While", body |-> <<[kind |-> "Expr",
         lineno |-> 4, value |-> [kind |-> "Name", lineno |-> 4, id |-> "b"]]>>,
         lineno |-> 3, orelse |-> <<[kind |-> "Expr", lineno |-> 6, value |-> [kind |-> "Name",
         lineno |-> 6, id |-> "c"]]>>, test |-> [kind |-> "Name", lineno |-> 3,
         id |-> "a"]]>>],
     tree2 |-> [kind |-> "Module", body |-> <<[kind |-> "FunctionDef", name |-> "f", body |-> <<[kind |-> "Expr",
         lineno |-> 2, value |-> [kind |-> "Yield", lineno |-> 2, value |-> [n |-> 1,
         kind |-> "Num", lineno |-> 2]]]>>, lineno |-> 1, args |-> [kind |-> "arguments",
         args |-> <<>>, posonlyargs |-> <<>>, kwonlyargs |-> <<>>, kw_defaults |-> <<>>,
         defaults |-> <<>>], decorator_list |-> <<>>], [kind |-> "While", body |-> <<[kind |-> "Expr",
         lineno |-> 4, value |-> [kind |-> "Name", lineno |-> 4, id |-> "b"]]>>,
         lineno |-> 3, orelse |-> <<[kind |-> "Expr", lineno |-> 6, value |-> [kind |-> "Name",
         lineno |-> 6, id |-> "c"]]>>, test |-> [kind |-> "Name", lineno |-> 3,
         id |-> "a"]]>>]]

Programs ==
    {Prog_scen1,
     Prog_scen2,
     Prog_comments,
     Prog_strdefault,
     Prog_strings,
     Prog_loops,
     Prog_globals,
     Prog_unsupported,
     Prog_inclass,
     Prog_methods,
     Prog_compound,
     Prog_simple,
     Prog_matmul,
     Prog_trailing,
     Prog_params,
     Prog_relimport,
     Prog_dictlines,
     Prog_withstr,
     Prog_twice}
\* ---- catalogue: end ----

(***************************************************************************)
(* class TokenSync                                                         *)
(***************************************************************************)

\* len(aList) of a Python list held as a function on 0..len-1.
PyLen(aList) == Cardinality(DOMAIN aList)

RECURSIVE SplitLinesFrom(_, _)
SplitLinesFrom(s, i) ==
    IF i > Len(s) THEN << >>
    ELSE LET j == FindFrom(s, "\n", i)
         IN  IF j = 0 THEN << SubSeq(s, i, Len(s)) >>
             ELSE << SubSeq(s, i, j) >> \o SplitLinesFrom(s, j + 1)

\* g.splitLines(s): s.splitlines(True) if s else [], for text whose line
\* ends are "\n".
splitLines(s) == IF s = "" THEN << >> ELSE SplitLinesFrom(s, 1)

token_kind(token) == token.kind

token_raw_val(token) == token.raw

token_val(token) == token.val

is_line_comment(token) ==
    token.kind = "comment" /\ StartsWith(LStrip(token.raw), "#")

\* token_module.NEWLINE with '\n' as both val and raw_val.
make_nl_token == Tok("newline", "\n", 0, 0, "\n")

\* The bucket a token is put in.
TokenLine(token) ==
    IF token.kind = "string" THEN token.erow - 1 ELSE token.srow - 1

\* make_line_tokens with every token put in the list of its start row.
make_line_tokens_by_start_row(lines, tokens) ==
    [i \in 0..Len(lines) |-> SelectSeq(tokens, LAMBDA t: t.srow - 1 = i)]

\* One list per line of self.lines and one more, each token appended to the
\* list of its line in stream order.
make_line_tokens(lines, tokens) ==
    [i \in 0..Len(lines) |-> SelectSeq(tokens, LAMBDA t: TokenLine(t) = i)]

make_blank_lines(line_tokens) ==
    {i \in DOMAIN line_tokens :
        Len(line_tokens[i]) = 1 /\ token_kind(line_tokens[i][1]) = "nl"}

make_string_tokens(line_tokens) ==
    [i \in DOMAIN line_tokens |->
        SelectSeq(line_tokens[i], LAMBDA z: token_kind(z) = "string")]

\* The result list of make_ignored_lines.
IgnoredLines(line_tokens, blank_lines, nl_token) ==
    [i \in DOMAIN line_tokens |->
        LET comments == SelectSeq(line_tokens[i], is_line_comment)
        IN  IF Len(comments) > 0 THEN comments[1]
            ELSE IF i \in blank_lines THEN nl_token
            ELSE NoneVal]

\* The value make_ignored_lines leaves in self.first_leading_line.
FirstLeadingLine(result) ==
    LET found == {i \in DOMAIN result : result[i] # NoneVal}
    IN  IF found # {}
        THEN CHOOSE i \in found : \A j \in found : i <= j
        ELSE PyLen(result)

\* TokenSync.__init__(s, tokens)
TokenSyncInit(s, tokens) ==
    LET raw_lines == splitLines(s)
        lines == [i \in 1..Len(raw_lines) |-> RStrip(raw_lines[i])]
        nl_token == make_nl_token
        line_tokens == make_line_tokens(lines, tokens)
        blank_lines == make_blank_lines(line_tokens)
        string_tokens == make_string_tokens(line_tokens)
        ignored_lines == IgnoredLines(line_tokens, blank_lines, nl_token)
    IN  [s |-> s,
         lines |-> lines,
         line_tokens |-> line_tokens,
         blank_lines |-> blank_lines,
         nl_token |-> nl_token,
         string_tokens |-> string_tokens,
         ignored_lines |-> ignored_lines,
         first_leading_line |-> FirstLeadingLine(ignored_lines)]

\* hasattr(node, 'lineno')
HasLineno(node) == "lineno" \in DOMAIN node

RECURSIVE LeadingLoop(_, _, _)
\* The while loop of leading_lines: << leading, i >> when it ends.
LeadingLoop(sync, i, n) ==
    IF i < n
    THEN LET token == sync.ignored_lines[i]
             rest == LeadingLoop(sync, i + 1, n)
         IN  IF token # NoneVal
             THEN << << RStrip(token_raw_val(token)) \o "\n" >> \o rest[1], rest[2] >>
             ELSE rest
    ELSE << << >>, i >>

\* leading_lines that leaves the watermark where it was.
leading_lines_keeps_watermark(sync, node) ==
    IF HasLineno(node)
    THEN LET r == LeadingLoop(sync, sync.first_leading_line, node.lineno)
         IN  [ret |-> r[1], sync |-> sync]
    ELSE [ret |-> << >>, sync |-> sync]

\* leading_lines that sets the watermark to the node's line, also backwards.
leading_lines_resets_watermark(sync, node) ==
    IF HasLineno(node)
    THEN LET r == LeadingLoop(sync, sync.first_leading_line, node.lineno)
         IN  [ret |-> r[1], sync |-> [sync EXCEPT !.first_leading_line = node.lineno]]
    ELSE [ret |-> << >>, sync |-> sync]

\* leading_lines that moves the watermark only when it returns a line.
leading_lines_advances_on_output(sync, node) ==
    IF HasLineno(node)
    THEN LET r == LeadingLoop(sync, sync.first_leading_line, node.lineno)
         IN  [ret |-> r[1],
              sync |-> IF Len(r[1]) > 0
                       THEN [sync EXCEPT !.first_leading_line = r[2]]
                       ELSE sync]
    ELSE [ret |-> << >>, sync |-> sync]

\* leading_lines that returns the lines without their indentation.
leading_lines_strips_indentation(sync, node) ==
    IF HasLineno(node)
    THEN LET r == LeadingLoop(sync, sync.first_leading_line, node.lineno)
         IN  [ret |-> [k \in 1..Len(r[1]) |-> LStrip(r[1][k])],
              sync |-> [sync EXCEPT !.first_leading_line = r[2]]]
    ELSE [ret |-> << >>, sync |-> sync]

\* TokenSync.leading_lines(node): the list returned and the TokenSync after.
leading_lines(sync, node) ==
    IF HasLineno(node)
    THEN LET r == LeadingLoop(sync, sync.first_leading_line, node.lineno)
         IN  [ret |-> r[1], sync |-> [sync EXCEPT !.first_leading_line = r[2]]]
    ELSE [ret |-> << >>, sync |-> sync]

\* TokenSync.leading_string(node)
leading_string(sync, node) ==
    LET r == leading_lines(sync, node)
    IN  [ret |-> Join("", r.ret), sync |-> r.sync]

\* sync_string that takes the next later string token when the queue of the
\* node's line is empty.
sync_string_pops_later_line(sync, node) ==
    LET n == node.lineno
        tokens == sync.string_tokens[n - 1]
        later == {i \in DOMAIN sync.string_tokens :
                     i > n - 1 /\ Len(sync.string_tokens[i]) > 0}
        j == CHOOSE i \in later : \A k \in later : i <= k
    IN  IF Len(tokens) > 0
        THEN [ret |-> token_val(Head(tokens)),
              sync |-> [sync EXCEPT !.string_tokens[n - 1] = Tail(tokens)],
              underflow |-> FALSE]
        ELSE IF later # {}
        THEN [ret |-> token_val(Head(sync.string_tokens[j])),
              sync |-> [sync EXCEPT !.string_tokens[j] = Tail(@)],
              underflow |-> FALSE]
        ELSE [ret |-> node.s, sync |-> sync, underflow |-> TRUE]

\* TokenSync.sync_string(node): node.s stands for the AST's own value.
sync_string(sync, node) ==
    LET n == node.lineno
        tokens == sync.string_tokens[n - 1]
    IN  IF Len(tokens) > 0
        THEN [ret |-> token_val(Head(tokens)),
              sync |-> [sync EXCEPT !.string_tokens[n - 1] = Tail(tokens)],
              underflow |-> FALSE]
        ELSE [ret |-> node.s, sync |-> sync, underflow |-> TRUE]

\* The first trailing (not full-line) comment token of a bucket, if any.
TrailingTokens(tokens) ==
    SelectSeq(tokens, LAMBDA token:
        /\ token_kind(token) = "comment"
        /\ ~StartsWith(Strip(RStrip(token_raw_val(token))), "#"))

\* TokenSync.trailing_comment(node)
trailing_comment(sync, node) ==
    IF HasLineno(node)
    THEN LET found == TrailingTokens(sync.line_tokens[node.lineno - 1])
         IN  IF Len(found) > 0
             THEN " " \o RStrip(token_val(found[1])) \o "\n"
             ELSE "\n"
    ELSE "\n"


(***************************************************************************)
(* class CoffeeScriptTraverser                                             *)
(*                                                                         *)
(* A rule do_X(node, st) is the method do_X run on the traverser state st  *)
(* and returns [s |-> the string returned, st |-> the state after].  st    *)
(* holds self.level, self.class_stack, the TokenSync that format created   *)
(* (sync), the module's isPython3, and                                     *)
(*   err:   "" or the exception that is propagating.  Once err is set      *)
(*          every rule leaves st alone (the statements after a raise do    *)
(*          not run) and the strings returned are not used;                *)
(*   log:   what the program printed (g.trace, print);                     *)
(*   trace: history, one event per visit that returned normally.           *)
(*                                                                         *)
(* The statements of a method are local operators: From_x(.., x) is the    *)
(* rest of the method once x has been computed, so the first statement is  *)
(* the one after IN and the return statement is the first operator.        *)
(***************************************************************************)

\* raise: the first exception wins.
Raise(st, e) == IF st.err # "" THEN st ELSE [st EXCEPT !.err = e]

\* self.level += d
AddLevel(st, d) == IF st.err # "" THEN st ELSE [st EXCEPT !.level = @ + d]

\* self.class_stack.append(name)
PushClass(st, name) ==
    IF st.err # "" THEN st ELSE [st EXCEPT !.class_stack = Append(@, name)]

\* self.class_stack.pop()
PopClass(st) ==
    IF st.err # "" THEN st
    ELSE IF Len(st.class_stack) = 0 THEN Raise(st, "IndexError")
    ELSE [st EXCEPT !.class_stack = SubSeq(@, 1, Len(@) - 1)]

\* print(...) / g.trace(...)
Log(st, msg) == IF st.err # "" THEN st ELSE [st EXCEPT !.log = Append(@, msg)]

\* self.leading_lines(node)
LeadingLines(st, node) ==
    IF st.err # "" THEN [ret |-> << >>, st |-> st]
    ELSE LET From_r(r) ==
                 [ret |-> r.ret, st |-> [st EXCEPT !.sync = r.sync]]
         IN  From_r(leading_lines(st.sync, node))

\* self.leading_string(node)
LeadingString(st, node) ==
    IF st.err # "" THEN [ret |-> "", st |-> st]
    ELSE LET From_r(r) ==
                 [ret |-> r.ret, st |-> [st EXCEPT !.sync = r.sync]]
         IN  From_r(leading_string(st.sync, node))

\* self.trailing_comment(node)
TrailingComment(st, node) == trailing_comment(st.sync, node)

RECURSIVE CountNewlines(_)
\* The n of indent: the number of leading '\n' of s.
CountNewlines(s) ==
    IF Len(s) > 0 /\ StartsWith(s, "\n") THEN 1 + CountNewlines(Tail(s)) ELSE 0

\* CoffeeScriptTraverser.indent(s)
indent(st, s) ==
    LET From_n(n) ==
            Repeat("\n", n) \o Repeat(" ", 4 * st.level) \o SubSeq(s, n + 1, Len(s))
    IN  From_n(CountNewlines(s))

RECURSIVE IntDigits(_)
IntDigits(n) ==
    IF n < 10 THEN SubSeq("0123456789", n + 1, n + 1)
    ELSE IntDigits(n \div 10) \o SubSeq("0123456789", (n % 10) + 1, (n % 10) + 1)

\* repr(n) of an int
IntRepr(n) == IF n < 0 THEN "-" \o IntDigits(0 - n) ELSE IntDigits(n)

\* The dictionary d of op_name, as (kind, spelling) pairs.
OpTable ==
    << << "Add", "+" >>, << "BitAnd", "&" >>, << "BitOr", "|" >>,
       << "BitXor", "^" >>, << "Div", "/" >>, << "FloorDiv", "//" >>,
       << "LShift", "<<" >>, << "Mod", "%" >>, << "Mult", "*" >>,
       << "Pow", "**" >>, << "RShift", ">>" >>, << "Sub", "-" >>,
       << "And", " and " >>, << "Or", " or " >>,
       << "Eq", "==" >>, << "Gt", ">" >>, << "GtE", ">=" >>,
       << "In", " in " >>, << "Is", " is " >>, << "IsNot", " is not " >>,
       << "Lt", "<" >>, << "LtE", "<=" >>, << "NotEq", "!=" >>,
       << "NotIn", " not in " >>,
       << "AugLoad", "<AugLoad>" >>, << "AugStore", "<AugStore>" >>,
       << "Del", "<Del>" >>, << "Load", "<Load>" >>, << "Param", "<Param>" >>,
       << "Store", "<Store>" >>,
       << "Invert", "~" >>, << "Not", " not " >>, << "UAdd", "+" >>,
       << "USub", "-" >> >>

\* kind in d
InOpTable(kind) == \E i \in 1..Len(OpTable) : OpTable[i][1] = kind

\* d.get(kind, default)
OpTableGet(kind, default) ==
    IF InOpTable(kind)
    THEN OpTable[CHOOSE i \in 1..Len(OpTable) : OpTable[i][1] = kind][2]
    ELSE default

\* op_name that returns the placeholder for every kind.
op_name_placeholder_only(node, strict) ==
    [ret |-> "<" \o node.kind \o ">", err |-> ""]

\* CoffeeScriptTraverser.op_name(node, strict): d.get(kind, '<%s>' % kind),
\* then `if strict: assert name, kind`.
op_name(node, strict) ==
    LET From_name(kind, name) ==
            [ret |-> name,
             err |-> IF strict /\ name = "" THEN "AssertionError" ELSE ""]
        From_kind(kind) ==
            From_name(kind, OpTableGet(kind, "<" \o kind \o ">"))
    IN  From_kind(node.kind)

\* self.op_name(node) inside a rule, the default strict=True.
OpName(st, node) ==
    LET From_r(r) ==
            [ret |-> r.ret, st |-> IF r.err # "" THEN Raise(st, r.err) ELSE st]
    IN  From_r(op_name(node, TRUE))

\* The node kinds the traverser has a do_ method for.
Rules ==
    << "ClassDef", "FunctionDef", "Interactive", "Module", "Lambda", "Expr",
       "Expression", "GeneratorExp", "arguments", "arg", "Attribute", "Bytes",
       "Call", "keyword", "comprehension", "Dict", "Ellipsis", "ExtSlice",
       "Index", "List", "ListComp", "Name", "NameConstant", "Num", "Repr",
       "Slice", "Str", "Subscript", "Tuple", "BinOp", "BoolOp", "Compare",
       "IfExp", "UnaryOp", "Assert", "Assign", "AugAssign", "Break",
       "Continue", "Delete", "ExceptHandler", "Exec", "For", "Global", "If",
       "Import", "ImportFrom", "Pass", "Print", "Raise", "Return", "Try",
       "TryExcept", "TryFinally", "While", "With", "Yield" >>

\* hasattr(self, 'do_' + kind)
HasRule(kind) == \E i \in 1..Len(Rules) : Rules[i] = kind

\* hasattr(node, f) / getattr(node, f, None) is not None
Has(node, f) == f \in DOMAIN node

RECURSIVE visit(_, _)

RECURSIVE visit_each(_, _)
\* [self.visit(z) for z in nodes]: the strings and the state after.
visit_each(nodes, st) ==
    IF Len(nodes) = 0 THEN [ss |-> << >>, st |-> st]
    ELSE LET From_rest(r, rest) ==
                 [ss |-> << r.s >> \o rest.ss, st |-> rest.st]
             From_r(r) ==
                 From_rest(r, visit_each(Tail(nodes), r.st))
         IN  From_r(visit(Head(nodes), st))

RECURSIVE body_loop_keeps_level(_, _)
\* The body loop without its `self.level -= 1`.
body_loop_keeps_level(nodes, st) ==
    IF Len(nodes) = 0 THEN [ss |-> << >>, st |-> st]
    ELSE LET From_rest(r, rest) ==
                 [ss |-> << r.s >> \o rest.ss, st |-> rest.st]
             From_r(r) ==
                 From_rest(r, body_loop_keeps_level(Tail(nodes), r.st))
         IN  From_r(visit(Head(nodes), AddLevel(st, 1)))

RECURSIVE body_loop(_, _)
\* for z in body: self.level += 1; result.append(self.visit(z)); self.level -= 1
body_loop(nodes, st) ==
    IF Len(nodes) = 0 THEN [ss |-> << >>, st |-> st]
    ELSE LET From_rest(r, rest) ==
                 [ss |-> << r.s >> \o rest.ss, st |-> rest.st]
             From_r(r) ==
                 From_rest(r, body_loop(Tail(nodes), AddLevel(r.st, -1)))
         IN  From_r(visit(Head(nodes), AddLevel(st, 1)))

\* What a rule returns.
R(s, st) == [s |-> s, st |-> st]

\* ---- contexts ----

\* The decorator loop of do_FunctionDef.
RECURSIVE decorator_loop(_, _)
decorator_loop(nodes, st) ==
    IF Len(nodes) = 0 THEN [ss |-> << >>, st |-> st]
    ELSE LET From_rest(z, tail, r, line, rest) ==
                 [ss |-> << line >> \o rest.ss, st |-> rest.st]
             From_line(z, tail, r, line) ==
                 From_rest(z, tail, r, line, decorator_loop(Tail(nodes), r.st))
             From_r(z, tail, r) ==
                 From_line(z, tail, r, indent(r.st, ("@" \o r.s) \o tail))
             From_tail(z, tail) ==
                 From_r(z, tail, visit(z, st))
             From_z(z) ==
                 From_tail(z, TrailingComment(st, z))
         IN  From_z(Head(nodes))

do_ClassDef(node, st) ==
    LET From_body(lead, tail, name, bases, s, head, body) ==
            R(Join("", lead.ret \o << head >> \o body.ss), PopClass(body.st))
        From_head(lead, tail, name, bases, s, head) ==
            From_body(lead, tail, name, bases, s, head,
                body_loop(node.body, PushClass(bases.st, name)))
        From_s(lead, tail, name, bases, s) ==
            From_head(lead, tail, name, bases, s, indent(bases.st, s \o tail))
        From_bases(lead, tail, name, bases) ==
            From_s(lead, tail, name, bases,
                IF Len(bases.ss) > 0
                THEN "class " \o name \o " extends " \o Join(", ", bases.ss)
                ELSE "class " \o name)
        From_name(lead, tail, name) ==
            From_bases(lead, tail, name, visit_each(node.bases, lead.st))
        From_tail(lead, tail) ==
            From_name(lead, tail, node.name)
        From_lead(lead) ==
            From_tail(lead, TrailingComment(lead.st, node))
    IN  From_lead(LeadingLines(st, node))

\* The parameter list with the first '@' dropped outside a class too.
FunctionArgs_drops_outside_class(st, args) ==
    LET From_joined(pieces, stripped, kept, joined) ==
            IF joined # "" THEN "(" \o joined \o ") " ELSE ""
        From_kept(pieces, stripped, kept) ==
            From_joined(pieces, stripped, kept, Join(", ", kept))
        From_stripped(pieces, stripped) ==
            From_kept(pieces, stripped,
                IF stripped[1] = "@" THEN Tail(stripped) ELSE stripped)
        From_pieces(pieces) ==
            From_stripped(pieces, [i \in 1..Len(pieces) |-> Strip(pieces[i])])
    IN  From_pieces(Split(args, ","))

\* The parameter list of do_FunctionDef: args.split(','), each stripped,
\* the first dropped when it is '@' inside a class, joined with ', '.
FunctionArgs(st, args) ==
    LET From_joined(pieces, stripped, kept, joined) ==
            IF joined # "" THEN "(" \o joined \o ") " ELSE ""
        From_kept(pieces, stripped, kept) ==
            From_joined(pieces, stripped, kept, Join(", ", kept))
        From_stripped(pieces, stripped) ==
            From_kept(pieces, stripped,
                IF Len(st.class_stack) > 0 /\ stripped[1] = "@"
                THEN Tail(stripped) ELSE stripped)
        From_pieces(pieces) ==
            From_stripped(pieces, [i \in 1..Len(pieces) |-> Strip(pieces[i])])
    IN  From_pieces(Split(args, ","))

\* A separator that never depends on the class stack.
FunctionSep_always_assigns(st) == " = "

\* sep = ': ' if self.class_stack else ' = '
FunctionSep(st) == IF Len(st.class_stack) > 0 THEN ": " ELSE " = "

do_FunctionDef(node, st) ==
    LET From_body(lead, decs, name, a, args, tail, sep, s, body) ==
            R(Join("", lead.ret \o decs.ss \o << indent(a.st, s) >> \o body.ss),
              body.st)
        From_s(lead, decs, name, a, args, tail, sep, s) ==
            From_body(lead, decs, name, a, args, tail, sep, s,
                body_loop(node.body, a.st))
        From_sep(lead, decs, name, a, args, tail, sep) ==
            From_s(lead, decs, name, a, args, tail, sep,
                name \o sep \o args \o "->" \o tail)
        From_tail(lead, decs, name, a, args, tail) ==
            From_sep(lead, decs, name, a, args, tail,
                FunctionSep(a.st))
        From_args(lead, decs, name, a, args) ==
            From_tail(lead, decs, name, a, args, TrailingComment(a.st, node))
        From_a(lead, decs, name, a) ==
            From_args(lead, decs, name, a, FunctionArgs(a.st, a.s))
        From_name(lead, decs, name) ==
            From_a(lead, decs, name,
                IF Has(node, "args") THEN visit(node.args, decs.st)
                ELSE R("", decs.st))
        From_decs(lead, decs) ==
            From_name(lead, decs, node.name)
        From_lead(lead) ==
            From_decs(lead, decorator_loop(node.decorator_list, lead.st))
    IN  From_lead(LeadingLines(st, node))

\* do_Interactive returns None, which visit's assert rejects.
do_Interactive(node, st) ==
    LET From_body(body) ==
            R("", Raise(body.st, "AssertionError"))
    IN  From_body(visit_each(node.body, st))

do_Module(node, st) ==
    LET From_body(body) ==
            R(Join("", body.ss), body.st)
    IN  From_body(visit_each(node.body, st))

do_Lambda(node, st) ==
    LET From_b(a, b) ==
            R(indent(b.st, "lambda " \o a.s \o ": " \o b.s), b.st)
        From_a(a) ==
            From_b(a, visit(node.body, a.st))
    IN  From_a(visit(node.args, st))

\* ---- expressions ----

do_Expr(node, st) ==
    LET From_v(head, tail, v) ==
            R(head.ret \o indent(v.st, v.s) \o tail, v.st)
        From_tail(head, tail) ==
            From_v(head, tail, visit(node.value, head.st))
        From_head(head) ==
            From_tail(head, TrailingComment(head.st, node))
    IN  From_head(LeadingString(st, node))

do_Expression(node, st) ==
    LET From_b(b) ==
            R(b.s \o "\n", b.st)
    IN  From_b(visit(node.body, st))

\* [z if z else '<**None**>' for z in gens]
OrNoneMarker(gens) ==
    [i \in 1..Len(gens) |-> IF gens[i] # "" THEN gens[i] ELSE "<**None**>"]

do_GeneratorExp(node, st) ==
    LET From_gens(elt, gens) ==
            R("<gen " \o elt.s \o " for " \o Join(",", OrNoneMarker(gens.ss)) \o ">",
              gens.st)
        From_elt(elt) ==
            From_gens(elt, visit_each(node.generators, elt.st))
    IN  From_elt(visit(node.elt, st))

\* ---- operands ----

\* The name of a vararg or kwarg: an ast.arg's arg with isPython3, a plain
\* string otherwise.
VarargName(st, name) == IF st.isPython3 THEN name.arg ELSE name

\* do_arguments that assigns the default values to the first parameters.
do_arguments_defaults_first(node, st) ==
    LET From_defaults(args, defaults) ==
            R(Join(",",
                   [i \in 1..Len(args.ss) |->
                       IF i <= Len(defaults.ss)
                       THEN args.ss[i] \o "=" \o defaults.ss[i]
                       ELSE args.ss[i]]
                   \o (IF Has(node, "vararg")
                       THEN << "*" \o VarargName(st, node.vararg) >> ELSE << >>)
                   \o (IF Has(node, "kwarg")
                       THEN << "**" \o VarargName(st, node.kwarg) >> ELSE << >>)),
              defaults.st)
        From_args(args) ==
            From_defaults(args, visit_each(node.defaults, args.st))
    IN  From_args(visit_each(node.args, st))

do_arguments(node, st) ==
    LET From_kw(args, defaults, n_plain, args2, va, kw) ==
            R(Join(",", args2 \o va \o kw), defaults.st)
        From_va(args, defaults, n_plain, args2, va) ==
            From_kw(args, defaults, n_plain, args2, va,
                IF Has(node, "kwarg")
                THEN << "**" \o VarargName(st, node.kwarg) >> ELSE << >>)
        From_args2(args, defaults, n_plain, args2) ==
            From_va(args, defaults, n_plain, args2,
                IF Has(node, "vararg")
                THEN << "*" \o VarargName(st, node.vararg) >> ELSE << >>)
        From_n_plain(args, defaults, n_plain) ==
            From_args2(args, defaults, n_plain,
                [i \in 1..Len(args.ss) |->
                    IF i - 1 < n_plain THEN args.ss[i]
                    ELSE args.ss[i] \o "=" \o defaults.ss[i - n_plain]])
        From_defaults(args, defaults) ==
            From_n_plain(args, defaults, Len(args.ss) - Len(defaults.ss))
        From_args(args) ==
            From_defaults(args, visit_each(node.defaults, args.st))
    IN  From_args(visit_each(node.args, st))

do_arg(node, st) == R(node.arg, st)

\* do_Attribute without the test for the receiver.
do_Attribute_keeps_dot(node, st) ==
    LET From_v(v) ==
            R(v.s \o "." \o node.attr, v.st)
    IN  From_v(visit(node.value, st))

\* '%s%s' % (val, node.attr), val being '@' or the value and a dot.
do_Attribute(node, st) ==
    LET From_val(v, val) ==
            R(val \o node.attr, v.st)
        From_v(v) ==
            From_val(v, IF v.s = "@" THEN "@" ELSE v.s \o ".")
    IN  From_v(visit(node.value, st))

\* str(node.s) of a bytes value whose text needs no escape.
do_Bytes(node, st) == R("b'" \o node.s \o "'", st)

do_Call(node, st) ==
    LET From_kept(func, args, kws, star, kwargs, all, kept) ==
            R(func.s \o "(" \o Join(",", kept) \o ")", kwargs.st)
        From_all(func, args, kws, star, kwargs, all) ==
            From_kept(func, args, kws, star, kwargs, all,
                SelectSeq(all, LAMBDA z: z # ""))
        From_kwargs(func, args, kws, star, kwargs) ==
            From_all(func, args, kws, star, kwargs,
                args.ss \o kws.ss
                \o (IF Has(node, "starargs") THEN << "*" \o star.s >> ELSE << >>)
                \o (IF Has(node, "kwargs") THEN << "**" \o kwargs.s >> ELSE << >>))
        From_star(func, args, kws, star) ==
            From_kwargs(func, args, kws, star,
                IF Has(node, "kwargs") THEN visit(node.kwargs, star.st)
                ELSE R("", star.st))
        From_kws(func, args, kws) ==
            From_star(func, args, kws,
                IF Has(node, "starargs") THEN visit(node.starargs, kws.st)
                ELSE R("", kws.st))
        From_args(func, args) ==
            From_kws(func, args, visit_each(node.keywords, args.st))
        From_func(func) ==
            From_args(func, visit_each(node.args, func.st))
    IN  From_func(visit(node.func, st))

do_keyword(node, st) ==
    LET From_arg(value, arg) ==
            R(arg \o "=" \o value.s, value.st)
        From_value(value) ==
            From_arg(value, IF Has(node, "arg") THEN node.arg ELSE "None")
    IN  From_value(visit(node.value, st))

do_comprehension(node, st) ==
    LET From_ifs(name, it, ifs) ==
            R((name.s \o " in " \o it.s)
                \o (IF Len(ifs.ss) > 0 THEN " if " \o Join("", ifs.ss) ELSE ""),
              ifs.st)
        From_it(name, it) ==
            From_ifs(name, it, visit_each(node.ifs, it.st))
        From_name(name) ==
            From_it(name, visit(node.iter, name.st))
    IN  From_name(visit(node.target, st))

RECURSIVE dict_loop_keeps_blank_lines(_, _, _)
\* The loop of do_Dict without the filter of the blank lines of head.
dict_loop_keeps_blank_lines(node, i, st) ==
    IF i > Len(node.keys) THEN [ss |-> << >>, st |-> st]
    ELSE LET From_rest(lead, tail, key, value, rest) ==
                 [ss |-> (IF Len(lead.ret) > 0
                          THEN << "\n" \o Join("", lead.ret) >> ELSE << >>)
                         \o << indent(value.st, key.s \o ":" \o value.s \o tail) >>
                         \o rest.ss,
                  st |-> rest.st]
             From_value(lead, tail, key, value) ==
                 From_rest(lead, tail, key, value,
                     dict_loop_keeps_blank_lines(node, i + 1, value.st))
             From_key(lead, tail, key) ==
                 From_value(lead, tail, key, visit(node.values[i], key.st))
             From_tail(lead, tail) ==
                 From_key(lead, tail, visit(node.keys[i], lead.st))
             From_lead(lead) ==
                 From_tail(lead, TrailingComment(lead.st, node.values[i]))
         IN  From_lead(LeadingLines(st, node.keys[i]))

RECURSIVE dict_loop(_, _, _)
\* The loop of do_Dict from pair i on: the strings added to items.
dict_loop(node, i, st) ==
    IF i > Len(node.keys) THEN [ss |-> << >>, st |-> st]
    ELSE LET From_rest(lead, head, tail, key, value, s, rest) ==
                 [ss |-> (IF Len(head) > 0 THEN << "\n" \o Join("", head) >>
                          ELSE << >>)
                         \o << indent(value.st, s) >> \o rest.ss,
                  st |-> rest.st]
             From_s(lead, head, tail, key, value, s) ==
                 From_rest(lead, head, tail, key, value, s,
                     dict_loop(node, i + 1, value.st))
             From_value(lead, head, tail, key, value) ==
                 From_s(lead, head, tail, key, value,
                     key.s \o ":" \o value.s \o tail)
             From_key(lead, head, tail, key) ==
                 From_value(lead, head, tail, key,
                     visit(node.values[i], key.st))
             From_tail(lead, head, tail) ==
                 From_key(lead, head, tail, visit(node.keys[i], lead.st))
             From_head(lead, head) ==
                 From_tail(lead, head,
                     TrailingComment(lead.st, node.values[i]))
             From_lead(lead) ==
                 From_head(lead, SelectSeq(lead.ret, LAMBDA z: Strip(z) # ""))
         IN  From_lead(LeadingLines(st, node.keys[i]))

do_Dict(node, st) ==
    IF Len(node.keys) # Len(node.values) THEN R("", Raise(st, "AssertionError"))
    ELSE LET From_st2(items, st2) ==
                 R("{" \o Join("", items.ss)
                     \o (IF Len(items.ss) > 0 THEN indent(st2, "}") ELSE "}"),
                   st2)
             From_items(items) ==
                 From_st2(items, AddLevel(items.st, -1))
         IN  From_items(dict_loop(node, 1, AddLevel(st, 1)))

do_Ellipsis(node, st) == R("...", st)

do_ExtSlice(node, st) ==
    LET From_dims(dims) ==
            R(Join(":", dims.ss), dims.st)
    IN  From_dims(visit_each(node.dims, st))

do_Index(node, st) == visit(node.value, st)

do_List(node, st) ==
    LET From_elts(elts) ==
            R("[" \o Join(",", elts.ss) \o "]", elts.st)
    IN  From_elts(visit_each(node.elts, st))

do_ListComp(node, st) ==
    LET From_gens(elt, gens) ==
            R(elt.s \o " for " \o Join("", OrNoneMarker(gens.ss)), gens.st)
        From_elt(elt) ==
            From_gens(elt, visit_each(node.generators, elt.st))
    IN  From_elt(visit(node.elt, st))

do_Name(node, st) == R(IF node.id = "self" THEN "@" ELSE node.id, st)

\* repr(node.value): 'True', 'False' or 'None' (value absent).
do_NameConstant(node, st) ==
    R(IF Has(node, "value") THEN (IF node.value THEN "True" ELSE "False")
      ELSE "None", st)

do_Num(node, st) == R(IntRepr(node.n), st)

do_Repr(node, st) ==
    LET From_v(v) ==
            R("repr(" \o v.s \o ")", v.st)
    IN  From_v(visit(node.value, st))

do_Slice(node, st) ==
    LET From_step(lower, upper, step) ==
            R(IF step.s # "" THEN lower.s \o ":" \o upper.s \o ":" \o step.s
              ELSE lower.s \o ":" \o upper.s,
              step.st)
        From_upper(lower, upper) ==
            From_step(lower, upper,
                IF Has(node, "step") THEN visit(node.step, upper.st)
                ELSE R("", upper.st))
        From_lower(lower) ==
            From_upper(lower,
                IF Has(node, "upper") THEN visit(node.upper, lower.st)
                ELSE R("", lower.st))
    IN  From_lower(
            IF Has(node, "lower") THEN visit(node.lower, st) ELSE R("", st))

do_Str(node, st) ==
    IF st.err # "" THEN R("", st)
    ELSE IF HasLineno(node)
    THEN LET From_st1(r, st1) ==
                 R(r.ret, IF r.underflow THEN Log(st1, "===== underflow") ELSE st1)
             From_r(r) ==
                 From_st1(r, [st EXCEPT !.sync = r.sync])
         IN  From_r(sync_string(st.sync, node))
    ELSE R(node.s, Log(st, "==== no lineno"))

do_Subscript(node, st) ==
    LET From_the_slice(value, the_slice) ==
            R(value.s \o "[" \o the_slice.s \o "]", the_slice.st)
        From_value(value) ==
            From_the_slice(value, visit(node.slice, value.st))
    IN  From_value(visit(node.value, st))

do_Tuple(node, st) ==
    LET From_elts(elts) ==
            R("(" \o Join(", ", elts.ss) \o ")", elts.st)
    IN  From_elts(visit_each(node.elts, st))

\* ---- operators ----

do_BinOp(node, st) ==
    LET From_right(left, op, right) ==
            R(left.s \o op.ret \o right.s, right.st)
        From_op(left, op) ==
            From_right(left, op, visit(node.right, op.st))
        From_left(left) ==
            From_op(left, OpName(left.st, node.op))
    IN  From_left(visit(node.left, st))

do_BoolOp(node, st) ==
    LET From_values(op, values) ==
            R(Join(op.ret, values.ss), values.st)
        From_op(op) ==
            From_values(op, visit_each(node.values, op.st))
    IN  From_op(OpName(st, node.op))

RECURSIVE op_names(_, _)
\* [self.op_name(z) for z in node.ops]
op_names(ops, st) ==
    IF Len(ops) = 0 THEN [ss |-> << >>, st |-> st]
    ELSE LET From_rest(r, rest) ==
                 [ss |-> << r.ret >> \o rest.ss, st |-> rest.st]
             From_r(r) ==
                 From_rest(r, op_names(Tail(ops), r.st))
         IN  From_r(OpName(st, Head(ops)))

do_Compare(node, st) ==
    LET From_comps(lt, ops, comps) ==
            IF Len(ops.ss) = Len(comps.ss)
            THEN R(lt.s \o Join("", [i \in 1..Len(ops.ss) |-> ops.ss[i] \o comps.ss[i]]),
                   comps.st)
            ELSE R(lt.s, Log(comps.st, "can not happen: ops"))
        From_ops(lt, ops) ==
            From_comps(lt, ops, visit_each(node.comparators, ops.st))
        From_lt(lt) ==
            From_ops(lt, op_names(node.ops, lt.st))
    IN  From_lt(visit(node.left, st))

do_IfExp(node, st) ==
    LET From_orelse(body, test, orelse) ==
            R(body.s \o " if " \o test.s \o " else " \o orelse.s \o " ", orelse.st)
        From_test(body, test) ==
            From_orelse(body, test, visit(node.orelse, test.st))
        From_body(body) ==
            From_test(body, visit(node.test, body.st))
    IN  From_body(visit(node.body, st))

do_UnaryOp(node, st) ==
    LET From_operand(op, operand) ==
            R(op.ret \o operand.s, operand.st)
        From_op(op) ==
            From_operand(op, visit(node.operand, op.st))
    IN  From_op(OpName(st, node.op))

\* ---- statements ----

\* return head + self.indent(s) + tail
Statement(st, head, s, tail) == R(head \o indent(st, s) \o tail, st)

do_Assert(node, st) ==
    LET From_s(head, tail, test, msg, s) ==
            Statement(msg.st, head.ret, s, tail)
        From_msg(head, tail, test, msg) ==
            From_s(head, tail, test, msg,
                IF Has(node, "msg") THEN "assert " \o test.s \o ", " \o msg.s
                ELSE "assert " \o test.s)
        From_test(head, tail, test) ==
            From_msg(head, tail, test,
                IF Has(node, "msg") THEN visit(node.msg, test.st)
                ELSE R("", test.st))
        From_tail(head, tail) ==
            From_test(head, tail, visit(node.test, head.st))
        From_head(head) ==
            From_tail(head, TrailingComment(head.st, node))
    IN  From_head(LeadingString(st, node))

do_Assign(node, st) ==
    LET From_s(head, tail, targets, value, s) ==
            Statement(value.st, head.ret, s, tail)
        From_value(head, tail, targets, value) ==
            From_s(head, tail, targets, value,
                Join("=", targets.ss) \o "=" \o value.s)
        From_targets(head, tail, targets) ==
            From_value(head, tail, targets, visit(node.value, targets.st))
        From_tail(head, tail) ==
            From_targets(head, tail, visit_each(node.targets, head.st))
        From_head(head) ==
            From_tail(head, TrailingComment(head.st, node))
    IN  From_head(LeadingString(st, node))

do_AugAssign(node, st) ==
    LET From_s(head, tail, target, op, value, s) ==
            Statement(value.st, head.ret, s, tail)
        From_value(head, tail, target, op, value) ==
            From_s(head, tail, target, op, value,
                target.s \o op.ret \o "=" \o value.s)
        From_op(head, tail, target, op) ==
            From_value(head, tail, target, op, visit(node.value, op.st))
        From_target(head, tail, target) ==
            From_op(head, tail, target, OpName(target.st, node.op))
        From_tail(head, tail) ==
            From_target(head, tail, visit(node.target, head.st))
        From_head(head) ==
            From_tail(head, TrailingComment(head.st, node))
    IN  From_head(LeadingString(st, node))

do_Break(node, st) ==
    LET From_tail(head, tail) ==
            Statement(head.st, head.ret, "break", tail)
        From_head(head) ==
            From_tail(head, TrailingComment(head.st, node))
    IN  From_head(LeadingString(st, node))

\* head is the list leading_lines returns: `head + self.indent(...)` adds a
\* str to a list, a TypeError.
do_Continue(node, st) ==
    LET From_head(head) ==
            R("", Raise(head.st, "TypeError"))
    IN  From_head(LeadingLines(st, node))

do_Delete(node, st) ==
    LET From_s(head, tail, targets, s) ==
            Statement(targets.st, head.ret, s, tail)
        From_targets(head, tail, targets) ==
            From_s(head, tail, targets, "del " \o Join(",", targets.ss))
        From_tail(head, tail) ==
            From_targets(head, tail, visit_each(node.targets, head.st))
        From_head(head) ==
            From_tail(head, TrailingComment(head.st, node))
    IN  From_head(LeadingString(st, node))

do_ExceptHandler(node, st) ==
    \* node.name is an AST node in Python 2, a string in Python 3.
    LET From_body(lead, tail, type, name, body) ==
            R(Join("", lead.ret
                    \o << indent(lead.st, "except") >>
                    \o (IF Has(node, "type") THEN << " " \o type.s >> ELSE << >>)
                    \o (IF Has(node, "name") THEN << " as " \o name.s >> ELSE << >>)
                    \o << ":" \o tail >>
                    \o body.ss),
              body.st)
        From_name(lead, tail, type, name) ==
            From_body(lead, tail, type, name, body_loop(node.body, name.st))
        From_type(lead, tail, type) ==
            From_name(lead, tail, type,
                IF Has(node, "name") /\ ~st.isPython3
                THEN visit(node.name, type.st)
                ELSE R(IF Has(node, "name") THEN node.name ELSE "", type.st))
        From_tail(lead, tail) ==
            From_type(lead, tail,
                IF Has(node, "type") THEN visit(node.type, lead.st)
                ELSE R("", lead.st))
        From_lead(lead) ==
            From_tail(lead, TrailingComment(lead.st, node))
    IN  From_lead(LeadingLines(st, node))

do_Exec(node, st) ==
    LET From_s(head, tail, body, globals, locals, args, s) ==
            Statement(locals.st, head.ret, s, tail)
        From_args(head, tail, body, globals, locals, args) ==
            From_s(head, tail, body, globals, locals, args,
                IF Len(args) > 0 THEN "exec " \o body.s \o " in " \o Join(",", args)
                ELSE "exec " \o body.s)
        From_locals(head, tail, body, globals, locals) ==
            From_args(head, tail, body, globals, locals,
                (IF Has(node, "globals") THEN << globals.s >> ELSE << >>)
                \o (IF Has(node, "locals") THEN << locals.s >> ELSE << >>))
        From_globals(head, tail, body, globals) ==
            From_locals(head, tail, body, globals,
                IF Has(node, "locals") THEN visit(node.locals, globals.st)
                ELSE R("", globals.st))
        From_body(head, tail, body) ==
            From_globals(head, tail, body,
                IF Has(node, "globals") THEN visit(node.globals, body.st)
                ELSE R("", body.st))
        From_tail(head, tail) ==
            From_body(head, tail, visit(node.body, head.st))
        From_head(head) ==
            From_tail(head, TrailingComment(head.st, node))
    IN  From_head(LeadingString(st, node))

do_For(node, st) ==
    LET From_orelse(lead, tail, target, iter, s, body, orelse) ==
            R(Join("", lead.ret \o << indent(iter.st, s \o tail) >> \o body.ss
                    \o (IF Len(node.orelse) > 0
                        THEN << indent(body.st, "else:\n") >> \o orelse.ss
                        ELSE << >>)),
              orelse.st)
        From_body(lead, tail, target, iter, s, body) ==
            From_orelse(lead, tail, target, iter, s, body,
                body_loop(node.orelse, body.st))
        From_s(lead, tail, target, iter, s) ==
            From_body(lead, tail, target, iter, s,
                body_loop(node.body, iter.st))
        From_iter(lead, tail, target, iter) ==
            From_s(lead, tail, target, iter,
                "for " \o target.s \o " in " \o iter.s \o ":")
        From_target(lead, tail, target) ==
            From_iter(lead, tail, target, visit(node.iter, target.st))
        From_tail(lead, tail) ==
            From_target(lead, tail, visit(node.target, lead.st))
        From_lead(lead) ==
            From_tail(lead, TrailingComment(lead.st, node))
    IN  From_lead(LeadingLines(st, node))

\* As do_Continue: head is a list, and list + str is a TypeError.
do_Global(node, st) ==
    LET From_head(head) ==
            R("", Raise(head.st, "TypeError"))
    IN  From_head(LeadingLines(st, node))

do_If(node, st) ==
    LET From_orelse(lead, tail, test, s, body, orelse) ==
            R(Join("", lead.ret \o << indent(test.st, s) >> \o body.ss
                    \o (IF Len(node.orelse) > 0
                        THEN << indent(body.st, "else:\n") >> \o orelse.ss
                        ELSE << >>)),
              orelse.st)
        From_body(lead, tail, test, s, body) ==
            From_orelse(lead, tail, test, s, body,
                body_loop(node.orelse, body.st))
        From_s(lead, tail, test, s) ==
            From_body(lead, tail, test, s, body_loop(node.body, test.st))
        From_test(lead, tail, test) ==
            From_s(lead, tail, test, "if " \o test.s \o ":" \o tail)
        From_tail(lead, tail) ==
            From_test(lead, tail, visit(node.test, lead.st))
        From_lead(lead) ==
            From_tail(lead, TrailingComment(lead.st, node))
    IN  From_lead(LeadingLines(st, node))

\* get_import_names and the loop over it: 'fn as asname' or 'fn'.
ImportNames(node) ==
    [i \in 1..Len(node.names) |->
        IF Has(node.names[i], "asname")
        THEN node.names[i].name \o " as " \o node.names[i].asname
        ELSE node.names[i].name]

do_Import(node, st) ==
    LET From_s(head, tail, s) ==
            Statement(head.st, head.ret, s, tail)
        From_tail(head, tail) ==
            From_s(head, tail,
                "pass # import " \o Join(",", ImportNames(node)))
        From_head(head) ==
            From_tail(head, TrailingComment(head.st, node))
    IN  From_head(LeadingString(st, node))

do_ImportFrom(node, st) ==
    LET From_s(head, tail, module, s) ==
            Statement(head.st, head.ret, s, tail)
        From_module(head, tail, module) ==
            From_s(head, tail, module,
                "pass # from " \o module \o " import " \o Join(",", ImportNames(node)))
        From_tail(head, tail) ==
            From_module(head, tail,
                IF Has(node, "module") THEN node.module ELSE "None")
        From_head(head) ==
            From_tail(head, TrailingComment(head.st, node))
    IN  From_head(LeadingString(st, node))

do_Pass(node, st) ==
    LET From_tail(head, tail) ==
            Statement(head.st, head.ret, "pass", tail)
        From_head(head) ==
            From_tail(head, TrailingComment(head.st, node))
    IN  From_head(LeadingString(st, node))

do_Print(node, st) ==
    \* node.nl is a bool, never the string 'False': nothing is added.
    LET From_s(head, tail, values, dest, vals, s) ==
            Statement(dest.st, head.ret, s, tail)
        From_vals(head, tail, values, dest, vals) ==
            From_s(head, tail, values, dest, vals,
                "print(" \o Join(",", vals) \o ")")
        From_dest(head, tail, values, dest) ==
            From_vals(head, tail, values, dest,
                values.ss
                \o (IF Has(node, "dest") THEN << "dest=" \o dest.s >> ELSE << >>))
        From_values(head, tail, values) ==
            From_dest(head, tail, values,
                IF Has(node, "dest") THEN visit(node.dest, values.st)
                ELSE R("", values.st))
        From_tail(head, tail) ==
            From_values(head, tail, visit_each(node.values, head.st))
        From_head(head) ==
            From_tail(head, TrailingComment(head.st, node))
    IN  From_head(LeadingString(st, node))

do_Raise(node, st) ==
    LET From_s(head, tail, type, inst, tback, args, s) ==
            Statement(tback.st, head.ret, s, tail)
        From_args(head, tail, type, inst, tback, args) ==
            From_s(head, tail, type, inst, tback, args,
                IF Len(args) > 0 THEN "raise " \o Join(", ", args) ELSE "raise")
        From_tback(head, tail, type, inst, tback) ==
            From_args(head, tail, type, inst, tback,
                (IF Has(node, "type") THEN << type.s >> ELSE << >>)
                \o (IF Has(node, "inst") THEN << inst.s >> ELSE << >>)
                \o (IF Has(node, "tback") THEN << tback.s >> ELSE << >>))
        From_inst(head, tail, type, inst) ==
            From_tback(head, tail, type, inst,
                IF Has(node, "tback") THEN visit(node.tback, inst.st)
                ELSE R("", inst.st))
        From_type(head, tail, type) ==
            From_inst(head, tail, type,
                IF Has(node, "inst") THEN visit(node.inst, type.st)
                ELSE R("", type.st))
        From_tail(head, tail) ==
            From_type(head, tail,
                IF Has(node, "type") THEN visit(node.type, head.st)
                ELSE R("", head.st))
        From_head(head) ==
            From_tail(head, TrailingComment(head.st, node))
    IN  From_head(LeadingString(st, node))

do_Return(node, st) ==
    LET From_s(head, tail, value, s) ==
            Statement(value.st, head.ret, s, tail)
        From_value(head, tail, value) ==
            From_s(head, tail, value,
                IF Has(node, "value") THEN "return " \o Strip(value.s) ELSE "return")
        From_tail(head, tail) ==
            From_value(head, tail,
                IF Has(node, "value") THEN visit(node.value, head.st)
                ELSE R("", head.st))
        From_head(head) ==
            From_tail(head, TrailingComment(head.st, node))
    IN  From_head(LeadingString(st, node))

\* self.trailing_comment(aList): a list has no lineno.
NoLineno == [kind |-> "list"]

do_Try(node, st) ==
    LET From_finalbody(lead, tail, body, handlers, orelse, finalbody) ==
            R(Join("", lead.ret \o << indent(lead.st, "try" \o tail) >> \o body.ss
                    \o handlers.ss
                    \o (IF Len(node.orelse) > 0
                        THEN << indent(handlers.st,
                                       "else:" \o TrailingComment(handlers.st, NoLineno)) >>
                             \o orelse.ss
                        ELSE << >>)
                    \o (IF Len(node.finalbody) > 0
                        THEN << indent(orelse.st,
                                       "finally:" \o TrailingComment(orelse.st, NoLineno)) >>
                             \o finalbody.ss
                        ELSE << >>)),
              finalbody.st)
        From_orelse(lead, tail, body, handlers, orelse) ==
            From_finalbody(lead, tail, body, handlers, orelse,
                body_loop(node.finalbody, orelse.st))
        From_handlers(lead, tail, body, handlers) ==
            From_orelse(lead, tail, body, handlers,
                body_loop(node.orelse, handlers.st))
        From_body(lead, tail, body) ==
            From_handlers(lead, tail, body, visit_each(node.handlers, body.st))
        From_tail(lead, tail) ==
            From_body(lead, tail, body_loop(node.body, lead.st))
        From_lead(lead) ==
            From_tail(lead, TrailingComment(lead.st, node))
    IN  From_lead(LeadingLines(st, node))

do_TryExcept(node, st) ==
    LET From_orelse(lead, tail, body, handlers, orelse) ==
            R(Join("", lead.ret \o << indent(lead.st, "try:" \o tail) >> \o body.ss
                    \o handlers.ss
                    \o (IF Len(node.orelse) > 0
                        THEN << indent(handlers.st,
                                       "else:" \o TrailingComment(handlers.st, NoLineno)) >>
                             \o orelse.ss
                        ELSE << >>)),
              orelse.st)
        From_handlers(lead, tail, body, handlers) ==
            From_orelse(lead, tail, body, handlers,
                body_loop(node.orelse, handlers.st))
        From_body(lead, tail, body) ==
            From_handlers(lead, tail, body, visit_each(node.handlers, body.st))
        From_tail(lead, tail) ==
            From_body(lead, tail, body_loop(node.body, lead.st))
        From_lead(lead) ==
            From_tail(lead, TrailingComment(lead.st, node))
    IN  From_lead(LeadingLines(st, node))

do_TryFinally(node, st) ==
    LET From_finalbody(lead, tail, body, finalbody) ==
            R(Join("", lead.ret \o << indent(lead.st, "try:" \o tail) >> \o body.ss
                    \o << indent(body.st, "finally:\n") >> \o finalbody.ss),
              finalbody.st)
        From_body(lead, tail, body) ==
            From_finalbody(lead, tail, body,
                body_loop(node.finalbody, body.st))
        From_tail(lead, tail) ==
            From_body(lead, tail, body_loop(node.body, lead.st))
        From_lead(lead) ==
            From_tail(lead, TrailingComment(lead.st, node))
    IN  From_lead(LeadingLines(st, node))

do_While(node, st) ==
    LET From_orelse(lead, tail, test, s, body, orelse) ==
            R(Join("", lead.ret \o << indent(test.st, s \o tail) >> \o body.ss
                    \o (IF Len(node.orelse) > 0
                        THEN << indent(body.st,
                                       "else:" \o TrailingComment(body.st, node)) >>
                             \o orelse.ss
                        ELSE << >>)),
              orelse.st)
        From_body(lead, tail, test, s, body) ==
            From_orelse(lead, tail, test, s, body,
                body_loop(node.orelse, body.st))
        From_s(lead, tail, test, s) ==
            From_body(lead, tail, test, s, body_loop(node.body, test.st))
        From_test(lead, tail, test) ==
            From_s(lead, tail, test, "while " \o test.s \o ":")
        From_tail(lead, tail) ==
            From_test(lead, tail, visit(node.test, lead.st))
        From_lead(lead) ==
            From_tail(lead, TrailingComment(lead.st, node))
    IN  From_lead(LeadingLines(st, node))

\* hasattr(node, 'context_expression') holds for no With node of either
\* grammar (the field is context_expr); were it to hold, the read of
\* node.context_expresssion would raise.  Iterating node.optional_vars (an
\* AST node or None) raises the TypeError that the rule catches, and the
\* handler visits it whole.
do_With(node, st) ==
    LET From_body(lead, tail, ctx, vars, vars_list, body) ==
            R(Join("", lead.ret \o << indent(lead.st, "with ") >>
                    \o << Join(",", vars_list) >> \o << ":" \o tail >>
                    \o body.ss \o << "\n" >>),
              body.st)
        From_vars_list(lead, tail, ctx, vars, vars_list) ==
            From_body(lead, tail, ctx, vars, vars_list,
                body_loop(node.body, vars.st))
        From_vars(lead, tail, ctx, vars) ==
            From_vars_list(lead, tail, ctx, vars,
                IF Has(node, "optional_vars") THEN << vars.s >> ELSE << >>)
        From_ctx(lead, tail, ctx) ==
            From_vars(lead, tail, ctx,
                IF Has(node, "optional_vars") THEN visit(node.optional_vars, ctx)
                ELSE R("", ctx))
        From_tail(lead, tail) ==
            From_ctx(lead, tail,
                IF Has(node, "context_expression")
                THEN Raise(lead.st, "AttributeError") ELSE lead.st)
        From_lead(lead) ==
            From_tail(lead, TrailingComment(lead.st, node))
    IN  From_lead(LeadingLines(st, node))

do_Yield(node, st) ==
    LET From_s(head, tail, value, s) ==
            Statement(value.st, head.ret, s, tail)
        From_value(head, tail, value) ==
            From_s(head, tail, value,
                IF Has(node, "value") THEN "yield " \o value.s ELSE "yield")
        From_tail(head, tail) ==
            From_value(head, tail,
                IF Has(node, "value") THEN visit(node.value, head.st)
                ELSE R("", head.st))
        From_head(head) ==
            From_tail(head, TrailingComment(head.st, node))
    IN  From_head(LeadingString(st, node))

\* method = getattr(self, 'do_' + name); s = method(node)
Dispatch(node, st) ==
    CASE node.kind = "ClassDef" -> do_ClassDef(node, st)
      [] node.kind = "FunctionDef" -> do_FunctionDef(node, st)
      [] node.kind = "Interactive" -> do_Interactive(node, st)
      [] node.kind = "Module" -> do_Module(node, st)
      [] node.kind = "Lambda" -> do_Lambda(node, st)
      [] node.kind = "Expr" -> do_Expr(node, st)
      [] node.kind = "Expression" -> do_Expression(node, st)
      [] node.kind = "GeneratorExp" -> do_GeneratorExp(node, st)
      [] node.kind = "arguments" -> do_arguments(node, st)
      [] node.kind = "arg" -> do_arg(node, st)
      [] node.kind = "Attribute" -> do_Attribute(node, st)
      [] node.kind = "Bytes" -> do_Bytes(node, st)
      [] node.kind = "Call" -> do_Call(node, st)
      [] node.kind = "keyword" -> do_keyword(node, st)
      [] node.kind = "comprehension" -> do_comprehension(node, st)
      [] node.kind = "Dict" -> do_Dict(node, st)
      [] node.kind = "Ellipsis" -> do_Ellipsis(node, st)
      [] node.kind = "ExtSlice" -> do_ExtSlice(node, st)
      [] node.kind = "Index" -> do_Index(node, st)
      [] node.kind = "List" -> do_List(node, st)
      [] node.kind = "ListComp" -> do_ListComp(node, st)
      [] node.kind = "Name" -> do_Name(node, st)
      [] node.kind = "NameConstant" -> do_NameConstant(node, st)
      [] node.kind = "Num" -> do_Num(node, st)
      [] node.kind = "Repr" -> do_Repr(node, st)
      [] node.kind = "Slice" -> do_Slice(node, st)
      [] node.kind = "Str" -> do_Str(node, st)
      [] node.kind = "Subscript" -> do_Subscript(node, st)
      [] node.kind = "Tuple" -> do_Tuple(node, st)
      [] node.kind = "BinOp" -> do_BinOp(node, st)
      [] node.kind = "BoolOp" -> do_BoolOp(node, st)
      [] node.kind = "Compare" -> do_Compare(node, st)
      [] node.kind = "IfExp" -> do_IfExp(node, st)
      [] node.kind = "UnaryOp" -> do_UnaryOp(node, st)
      [] node.kind = "Assert" -> do_Assert(node, st)
      [] node.kind = "Assign" -> do_Assign(node, st)
      [] node.kind = "AugAssign" -> do_AugAssign(node, st)
      [] node.kind = "Break" -> do_Break(node, st)
      [] node.kind = "Continue" -> do_Continue(node, st)
      [] node.kind = "Delete" -> do_Delete(node, st)
      [] node.kind = "ExceptHandler" -> do_ExceptHandler(node, st)
      [] node.kind = "Exec" -> do_Exec(node, st)
      [] node.kind = "For" -> do_For(node, st)
      [] node.kind = "Global" -> do_Global(node, st)
      [] node.kind = "If" -> do_If(node, st)
      [] node.kind = "Import" -> do_Import(node, st)
      [] node.kind = "ImportFrom" -> do_ImportFrom(node, st)
      [] node.kind = "Pass" -> do_Pass(node, st)
      [] node.kind = "Print" -> do_Print(node, st)
      [] node.kind = "Raise" -> do_Raise(node, st)
      [] node.kind = "Return" -> do_Return(node, st)
      [] node.kind = "Try" -> do_Try(node, st)
      [] node.kind = "TryExcept" -> do_TryExcept(node, st)
      [] node.kind = "TryFinally" -> do_TryFinally(node, st)
      [] node.kind = "While" -> do_While(node, st)
      [] node.kind = "With" -> do_With(node, st)
      [] node.kind = "Yield" -> do_Yield(node, st)

\* The history event of a visit that returned s: the node, the string, and
\* self.level and self.class_stack when the rule was entered and when it
\* returned.
VisitEvent(node, st0, r) ==
    [node |-> node, s |-> r.s,
     level0 |-> st0.level, level1 |-> r.st.level,
     stack0 |-> st0.class_stack, stack1 |-> r.st.class_stack]

\* visit that renders a node kind without a rule as the empty string.
visit_skips_unknown(node, st) ==
    IF st.err # "" THEN R("", st)
    ELSE IF node.kind = "None" THEN R("None", st)
    ELSE LET From_r(r) ==
                 IF r.st.err # "" THEN R("", r.st)
                 ELSE R(r.s, [r.st EXCEPT !.trace = Append(@, VisitEvent(node, st, r))])
         IN  From_r(
                 IF HasRule(node.kind) THEN Dispatch(node, st) ELSE R("", st))

\* CoffeeScriptTraverser.visit(node) for a node or None (no rule passes it
\* a list): getattr(self, 'do_' + name) raises AttributeError for a kind
\* without a do_ method.
visit(node, st) ==
    IF st.err # "" THEN R("", st)
    ELSE IF node.kind = "None" THEN R("None", st)
    ELSE IF ~HasRule(node.kind) THEN R("", Raise(st, "AttributeError"))
    ELSE LET From_r(r) ==
                 IF r.st.err # "" THEN R("", r.st)
                 ELSE R(r.s, [r.st EXCEPT !.trace = Append(@, VisitEvent(node, st, r))])
         IN  From_r(Dispatch(node, st))

(***************************************************************************)
(* The state.                                                              *)
(***************************************************************************)
VARIABLES
    isPython3,      \* the module's isPython3: which grammar the parser speaks
    prog,           \* the program handed to format: its text, tokens, tree
    sync,           \* the TokenSync of the current format call
    level,          \* self.level
    class_stack,    \* self.class_stack
    phase,          \* where the traverser is: "idle", "visiting", "done", "failed"
    idx,            \* do_Module: the statement of the body visited next
    result,         \* do_Module: the strings of the statements visited
    val,            \* what format returned
    err,            \* the exception that ended format, or ""
    log,            \* what the program printed
    trace,          \* history: the visits of this format call that returned
    ncalls,         \* history: the format calls made on the traverser
    calls,          \* history: the leading_lines calls made on sync (SpecSync)
    op_call         \* SpecOp: the op_name call, its arguments and result

vars == << isPython3, prog, sync, level, class_stack, phase, idx, result, val,
           err, log, trace, ncalls, calls, op_call >>

traverser_vars == << level, class_stack, phase, idx, result, val, err, log,
                     trace, ncalls >>

\* ---- bounds ----
\* The number of TokenSync queries one behaviour of SpecSync makes.
MaxSyncCalls == 3
\* The number of format calls made on one traverser.
MaxFormatCalls == 2

\* The most operators and the most comparators of a Compare node a client
\* builds.
MaxChain == 2

\* No TokenSync: before the first format call.
NoSync == TokenSyncInit("", << >>)
NoOpCall == [node |-> [kind |-> "Load"], ret |-> "", err |-> "",
             strict |-> TRUE, called |-> FALSE]

\* CoffeeScriptTraverser.__init__ (self.level is first set by format).
TraverserInit ==
    /\ level = 0
    /\ class_stack = << >>
    /\ phase = "idle"
    /\ idx = 0
    /\ result = << >>
    /\ val = ""
    /\ err = ""
    /\ log = << >>
    /\ trace = << >>
    /\ ncalls = 0

(***************************************************************************)
(* Spec: one traverser, format called on it with programs of the           *)
(* catalogue.  format runs do_Module on the tree; its list comprehension   *)
(* visits the statements of the body one after the other, one step each.  *)
(***************************************************************************)

\* The tree the parser builds for p.
Tree(p) == IF isPython3 THEN p.tree3 ELSE p.tree2

\* The traverser state the rules run on.
St == [isPython3 |-> isPython3, level |-> level, class_stack |-> class_stack,
       sync |-> sync, err |-> err, log |-> log, trace |-> trace]

\* A traverser is constructed and the caller holds the first program.
Init ==
    /\ isPython3 \in BOOLEAN
    /\ prog \in Programs
    /\ sync = NoSync
    /\ TraverserInit
    /\ calls = << >>
    /\ op_call = NoOpCall

\* format(node, s, tokens) up to the call of visit, for the program the
\* caller holds: self.level = 0 and a new TokenSync; self.class_stack is not
\* touched.
Format ==
    /\ phase = "idle"
    /\ ncalls' = ncalls + 1
    /\ level' = 0
    /\ sync' = TokenSyncInit(prog.s, prog.tokens)
    /\ phase' = "visiting"
    /\ idx' = 1
    /\ result' = << >>
    /\ val' = ""
    /\ err' = ""
    /\ log' = << >>
    /\ trace' = << >>
    /\ UNCHANGED << isPython3, prog, class_stack, calls, op_call >>

\* The caller takes the next program for the same traverser.
NextProgram(p) ==
    /\ phase \in {"done", "failed"}
    /\ ncalls < MaxFormatCalls
    /\ prog' = p
    /\ phase' = "idle"
    /\ UNCHANGED << isPython3, sync, level, class_stack, idx, result, val,
                    err, log, trace, ncalls, calls, op_call >>

\* do_Module: self.visit(z) for the next z of node.body.  An exception
\* leaves format: no value is returned.
VisitStatement ==
    /\ phase = "visiting"
    /\ idx <= Len(Tree(prog).body)
    /\ LET r == visit(Tree(prog).body[idx], St)
       IN  /\ level' = r.st.level
           /\ class_stack' = r.st.class_stack
           /\ sync' = r.st.sync
           /\ err' = r.st.err
           /\ log' = r.st.log
           /\ trace' = r.st.trace
           /\ IF r.st.err # ""
              THEN /\ phase' = "failed"
                   /\ UNCHANGED << idx, result >>
              ELSE /\ phase' = "visiting"
                   /\ idx' = idx + 1
                   /\ result' = Append(result, r.s)
    /\ UNCHANGED << isPython3, prog, val, ncalls, calls, op_call >>

\* do_Module's ''.join and format's `return val or ''`.
Return ==
    /\ phase = "visiting"
    /\ idx > Len(Tree(prog).body)
    /\ val' = Join("", result)
    /\ phase' = "done"
    /\ UNCHANGED << isPython3, prog, sync, level, class_stack, idx, result,
                    err, log, trace, ncalls, calls, op_call >>

Next ==
    \/ Format
    \/ \E p \in Programs : NextProgram(p)
    \/ VisitStatement
    \/ Return

Spec == Init /\ [][Next]_vars

(***************************************************************************)
(* SpecSync: a TokenSync built for one program and queried by a client in  *)
(* any order (leading_lines "can be called on arbitrary nodes").           *)
(***************************************************************************)

\* The nodes a client can pass: one per line number the tree uses, and one
\* node without a line number (an operator, an arguments node).
QueryNodes(p) ==
    {[kind |-> "Node", lineno |-> n] : n \in p.linenos} \cup {[kind |-> "Load"]}

InitSync ==
    /\ isPython3 \in BOOLEAN
    /\ prog \in Programs
    /\ sync = TokenSyncInit(prog.s, prog.tokens)
    /\ TraverserInit
    /\ calls = << >>
    /\ op_call = NoOpCall

CallLeadingLines(node) ==
    /\ Len(calls) < MaxSyncCalls
    /\ LET r == leading_lines(sync, node)
       IN  /\ sync' = r.sync
           /\ calls' = Append(calls,
                  [node |-> node, ret |-> r.ret,
                   before |-> sync.first_leading_line,
                   after |-> r.sync.first_leading_line])
    /\ UNCHANGED << isPython3, prog, op_call >>
    /\ UNCHANGED traverser_vars

NextSync == \E node \in QueryNodes(prog) : CallLeadingLines(node)

SpecSync == InitSync /\ [][NextSync]_vars

(***************************************************************************)
(* SpecStr: a TokenSync built for one program, sync_string called by a     *)
(* client on the literals of the program, any of them any number of times. *)
(***************************************************************************)

\* The value of a string literal without prefix and escapes: the text
\* between its quotes, three on each side or one.
LiteralValue(t) ==
    IF Len(t) >= 6 /\ SubSeq(t, 1, 3) \in {"\"\"\"", "'''"}
    THEN SubSeq(t, 4, Len(t) - 3)
    ELSE SubSeq(t, 2, Len(t) - 1)

\* The Str nodes the parser builds for the string tokens of p.
StrNodes(p) ==
    {[s |-> LiteralValue(p.tokens[i].val), kind |-> "Str",
      lineno |-> p.tokens[i].erow] :
        i \in {j \in 1..Len(p.tokens) : p.tokens[j].kind = "string"}}

\* self.sync_string(node)
CallSyncString(node) ==
    /\ Len(calls) < MaxSyncCalls
    /\ LET r == sync_string(sync, node)
       IN  /\ sync' = r.sync
           /\ calls' = Append(calls,
                  [node |-> node, ret |-> r.ret, underflow |-> r.underflow,
                   before |-> sync, after |-> r.sync])
    /\ UNCHANGED << isPython3, prog, op_call >>
    /\ UNCHANGED traverser_vars

NextStr == \E node \in StrNodes(prog) : CallSyncString(node)

SpecStr == InitSync /\ [][NextStr]_vars

(***************************************************************************)
(* SpecTrail: a TokenSync built for one program, trailing_comment called   *)
(* once by a client, on a node of any line of the program or on a node     *)
(* without a line number.                                                  *)
(***************************************************************************)

\* self.trailing_comment(node)
CallTrailingComment(node) ==
    /\ calls = << >>
    /\ calls' = << [node |-> node, ret |-> trailing_comment(sync, node),
                    before |-> sync, after |-> sync] >>
    /\ UNCHANGED << isPython3, prog, sync, op_call >>
    /\ UNCHANGED traverser_vars

NextTrail == \E node \in QueryNodes(prog) : CallTrailingComment(node)

SpecTrail == InitSync /\ [][NextTrail]_vars

(***************************************************************************)
(* SpecOp: the operator rules called by a client on nodes it built:        *)
(* op_name once, on a node of any kind, strict or not, and visit once, on  *)
(* a Compare node with that operator.                                      *)
(***************************************************************************)

\* Kinds the dictionary of op_name lacks: MatMult is an operator of the
\* grammar since Python 3.5, the others are nodes that are not operators.
AbsentKinds == << "MatMult", "Name", "Num", "Pass" >>

\* The nodes op_name is called with.
OpNodes ==
    {[kind |-> OpTable[i][1]] : i \in 1..Len(OpTable)}
        \cup {[kind |-> AbsentKinds[i]] : i \in 1..Len(AbsentKinds)}

InitOp ==
    /\ isPython3 = TRUE
    /\ prog = Prog_scen1
    /\ sync = NoSync
    /\ TraverserInit
    /\ calls = << >>
    /\ op_call \in {[node |-> n, ret |-> "", err |-> "", strict |-> b,
                     called |-> FALSE] : n \in OpNodes, b \in BOOLEAN}

\* self.op_name(node, strict)
CallOpName ==
    /\ ~op_call.called
    /\ LET r == op_name(op_call.node, op_call.strict)
       IN  op_call' = [op_call EXCEPT !.called = TRUE, !.ret = r.ret,
                                      !.err = r.err]
    /\ UNCHANGED << isPython3, prog, sync, calls >>
    /\ UNCHANGED traverser_vars

\* The names of the comparators of the Compare nodes.
Operands == << "b", "c", "d", "e" >>

\* Compare(left=a, ops=nops times op, comparators=the first ncomps Operands)
CompareNode(op, nops, ncomps) ==
    [kind |-> "Compare", lineno |-> 1,
     left |-> [kind |-> "Name", lineno |-> 1, id |-> "a"],
     ops |-> [i \in 1..nops |-> op],
     comparators |-> [i \in 1..ncomps |->
                         [kind |-> "Name", lineno |-> 1, id |-> Operands[i]]]]

\* self.visit(node) for a Compare node, which runs do_Compare.
CallDoCompare ==
    /\ phase = "idle"
    /\ \E nops \in 1..MaxChain, ncomps \in 1..MaxChain :
          LET r == visit(CompareNode(op_call.node, nops, ncomps), St)
          IN  /\ val' = r.s
              /\ err' = r.st.err
              /\ log' = r.st.log
              /\ trace' = r.st.trace
              /\ level' = r.st.level
              /\ class_stack' = r.st.class_stack
              /\ phase' = IF r.st.err = "" THEN "done" ELSE "failed"
    /\ UNCHANGED << isPython3, prog, sync, idx, result, ncalls, calls, op_call >>

NextOp == CallOpName \/ CallDoCompare

SpecOp == InitOp /\ [][NextOp]_vars

(***************************************************************************)
(* SpecDict: a TokenSync built for a program with a dict display, the      *)
(* display rendered once by visit, leading_lines called by a client before *)
(* and after.                                                              *)
(***************************************************************************)

\* The dict displays a statement of the program assigns.
DictNodes(p) ==
    {Tree(p).body[i].value :
        i \in {j \in 1..Len(Tree(p).body) :
                  /\ Tree(p).body[j].kind = "Assign"
                  /\ Tree(p).body[j].value.kind = "Dict"}}

InitDict ==
    /\ isPython3 \in BOOLEAN
    /\ prog \in Programs
    /\ DictNodes(prog) # {}
    /\ sync = TokenSyncInit(prog.s, prog.tokens)
    /\ TraverserInit
    /\ calls = << >>
    /\ op_call = NoOpCall

\* self.visit(node) for a Dict node, which runs do_Dict.
CallDoDict(node) ==
    /\ phase = "idle"
    /\ Len(calls) < MaxSyncCalls
    /\ LET r == visit(node, St)
       IN  /\ val' = r.s
           /\ err' = r.st.err
           /\ log' = r.st.log
           /\ trace' = r.st.trace
           /\ level' = r.st.level
           /\ class_stack' = r.st.class_stack
           /\ sync' = r.st.sync
           /\ phase' = IF r.st.err = "" THEN "done" ELSE "failed"
           /\ calls' = Append(calls,
                  [node |-> node, ret |-> r.s,
                   before |-> sync.first_leading_line,
                   after |-> r.st.sync.first_leading_line])
    /\ UNCHANGED << isPython3, prog, idx, result, ncalls, op_call >>

NextDict ==
    \/ \E node \in QueryNodes(prog) : CallLeadingLines(node)
    \/ \E node \in DictNodes(prog) : CallDoDict(node)

SpecDict == InitDict /\ [][NextDict]_vars

(***************************************************************************)
(* Claims about TokenSync.leading_lines (checked under SpecSync).          *)
(***************************************************************************)

\* Whether sub occurs in s.
Contains(s, sub) == FindFrom(s, sub, 1) > 0

RECURSIVE CountFrom(_, _, _)
\* The number of positions >= i at which sub occurs in s.
CountFrom(s, sub, i) ==
    LET j == FindFrom(s, sub, i)
    IN  IF j = 0 THEN 0 ELSE 1 + CountFrom(s, sub, j + 1)

\* The number of (possibly overlapping) occurrences of sub in s.
Count(s, sub) == CountFrom(s, sub, 1)

RECURSIVE ConcatRets(_)
\* The lists the calls of a history returned, concatenated.
ConcatRets(cs) ==
    IF Len(cs) = 0 THEN << >> ELSE Head(cs).ret \o ConcatRets(Tail(cs))

RECURSIVE IgnoredText(_, _, _)
\* The text of the ignored lines with index in [lo, hi), in source order:
\* line index i is the source line self.lines[i] (here lines[i + 1]).
IgnoredText(ts, lo, hi) ==
    IF lo >= hi THEN << >>
    ELSE (IF ts.ignored_lines[lo] # NoneVal
          THEN << ts.lines[lo + 1] \o "\n" >> ELSE << >>)
         \o IgnoredText(ts, lo + 1, hi)

\* The calls of the history were made on nodes in strictly increasing line
\* order.
IncreasingCalls ==
    /\ \A k \in 1..Len(calls) : HasLineno(calls[k].node)
    /\ \A k \in 1..(Len(calls) - 1) :
          calls[k].node.lineno < calls[k + 1].node.lineno

\* C1: for nodes N1..Nk passed to leading_lines in strictly increasing line
\* order, the concatenation of the k returned lists is exactly the list of
\* the ignored lines (full-line comments and blank lines) strictly before
\* Nk's line, in source order, each line once.  Nk's line has number
\* lineno, hence index lineno - 1: the lines before it have index
\* 0 .. lineno - 2.
C1_LeadingConcatenation ==
    (Len(calls) > 0 /\ IncreasingCalls) =>
        ConcatRets(calls) =
            IgnoredText(sync, 0, calls[Len(calls)].node.lineno - 1)

\* Two calls in increasing line order, each returning ignored lines.
C1_Witness ==
    /\ Len(calls) >= 2
    /\ IncreasingCalls
    /\ \A k \in 1..Len(calls) : Len(calls[k].ret) > 0

\* C2: in any call order the watermark first_leading_line never decreases,
\* a call whose line is at or below the watermark returns an empty list,
\* and no ignored line is returned by two calls: each call returns the
\* ignored lines of [watermark before, watermark after), and these
\* intervals follow one another.
C2_WatermarkMonotone ==
    /\ \A k \in 1..Len(calls) :
          /\ calls[k].after >= calls[k].before
          /\ (HasLineno(calls[k].node)
                /\ calls[k].node.lineno <= calls[k].before)
             => calls[k].ret = << >>
          /\ calls[k].ret = IgnoredText(sync, calls[k].before, calls[k].after)
    /\ \A k \in 1..(Len(calls) - 1) : calls[k + 1].before = calls[k].after
    /\ Len(calls) > 0 => sync.first_leading_line = calls[Len(calls)].after

\* A call on an earlier line after a call that returned ignored lines which
\* end strictly before the later call's watermark.
C2_Witness ==
    \E k \in 1..(Len(calls) - 1) :
        /\ Len(calls[k].ret) > 0
        /\ HasLineno(calls[k + 1].node)
        /\ calls[k + 1].node.lineno < calls[k].node.lineno
        /\ calls[k + 1].ret = << >>

(***************************************************************************)
(* Claims about the renderer (checked under Spec) and about op_name        *)
(* (checked under SpecOp).  The events of `trace` are the visits of the    *)
(* current format call that returned.                                      *)
(***************************************************************************)

\* The text between the quotes of a string token without prefix.
Unquoted(t) == SubSeq(t, 2, Len(t) - 1)

\* The spellings of the string tokens on the literal's line whose value is
\* the literal's.
OwnTokens(node) ==
    {prog.tokens[i].val :
        i \in {j \in 1..Len(prog.tokens) :
                  /\ prog.tokens[j].kind = "string"
                  /\ prog.tokens[j].erow = node.lineno
                  /\ Unquoted(prog.tokens[j].val) = node.s}}

\* C3: when format returns, every string literal with a line number that
\* was rendered came out as the spelling of its own token, and that
\* spelling stands in the returned text, wherever the literal occurs.
C3_StringsVerbatim ==
    phase = "done" =>
        \A i \in 1..Len(trace) :
            (trace[i].node.kind = "Str" /\ HasLineno(trace[i].node)) =>
                /\ trace[i].s \in OwnTokens(trace[i].node)
                /\ Contains(val, trace[i].s)

\* The kinds that render a nested body.
BodyKinds ==
    {"ClassDef", "FunctionDef", "If", "For", "While", "Try", "TryExcept",
     "TryFinally", "ExceptHandler", "With", "Dict"}

\* C4: every visit of a node with a nested body that returns leaves
\* self.level and self.class_stack as it found them, and self.level is
\* never negative, neither between the steps of a render nor when a rule
\* is entered or left.
C4_LevelAndScopeRestored ==
    /\ level >= 0
    /\ \A i \in 1..Len(trace) :
          /\ trace[i].level0 >= 0
          /\ trace[i].level1 >= 0
          /\ trace[i].node.kind \in BodyKinds =>
                /\ trace[i].level1 = trace[i].level0
                /\ trace[i].stack1 = trace[i].stack0

\* A render that returned a class whose body holds a function, the body of
\* that function having been rendered two levels deep inside the class.
C4_Witness ==
    /\ phase = "done"
    /\ \E i \in 1..Len(trace) :
          /\ trace[i].node.kind = "ClassDef"
          /\ trace[i].level0 = 0
          /\ trace[i].stack0 = << >>
          /\ \E j \in 1..(i - 1) :
                /\ trace[j].node.kind = "FunctionDef"
                /\ trace[j].level0 = 1
                /\ Len(trace[j].stack0) = 1
          /\ \E j \in 1..(i - 1) :
                /\ trace[j].node.kind = "Return"
                /\ trace[j].level0 = 2

\* C5: op_name called with a kind its dictionary lacks raises when strict
\* and returns '<Kind>' when not strict.
C5_AbsentKind ==
    (op_call.called /\ ~InOpTable(op_call.node.kind)) =>
        IF op_call.strict
        THEN op_call.err # ""
        ELSE /\ op_call.err = ""
             /\ op_call.ret = "<" \o op_call.node.kind \o ">"

\* The name of a positional parameter: an arg node or a Name node.
ParamName(a) == IF a.kind = "arg" THEN a.arg ELSE a.id

\* What the parameter's own rule renders it as.
RenderedName(a) ==
    IF a.kind = "Name" /\ a.id = "self" THEN "@" ELSE ParamName(a)

\* The position of the header `name<sep>` in a rendered function, or 0.
HeaderAt(e, sep) == FindFrom(e.s, e.node.name \o sep, 1)

\* The items of the parameter list of the header `name<sep>(...) ->` of a
\* rendered function, read off the rendered text.
HeaderParams(e, sep) ==
    LET h == e.node.name \o sep
        rest == SubSeq(e.s, HeaderAt(e, sep) + Len(h), Len(e.s))
        text == Strip(SubSeq(rest, 1, FindFrom(rest, "->", 1) - 1))
        inner == IF text = "" THEN "" ELSE SubSeq(text, 2, Len(text) - 1)
        pieces == Split(inner, ",")
    IN  IF inner = "" THEN << >>
        ELSE [k \in 1..Len(pieces) |-> Strip(pieces[k])]

\* The name of an item `name` or `name=default` of a parameter list.
NamePart(item) == Strip(Split(item, "=")[1])

\* C6: a function rendered inside a class that has a positional parameter
\* is rendered without its first parameter, whatever its name and whatever
\* the kind of the parameter node.
C6_ReceiverDropped ==
    \A i \in 1..Len(trace) :
        (/\ trace[i].node.kind = "FunctionDef"
         /\ trace[i].stack0 # << >>
         /\ Len(trace[i].node.args.args) > 0) =>
            /\ HeaderAt(trace[i], ": ") > 0
            /\ LET items == HeaderParams(trace[i], ": ")
               IN  \/ Len(items) = 0
                   \/ NamePart(items[1])
                          # RenderedName(trace[i].node.args.args[1])

\* C7: a function rendered while self.class_stack is empty keeps every
\* positional parameter in its rendered parameter list, the first one
\* first, also when it is named self.
C7_NoDropOutsideClass ==
    \A i \in 1..Len(trace) :
        (/\ trace[i].node.kind = "FunctionDef"
         /\ trace[i].stack0 = << >>) =>
            /\ HeaderAt(trace[i], " = ") > 0
            /\ LET items == HeaderParams(trace[i], " = ")
                   params == trace[i].node.args.args
               IN  /\ Len(items) >= Len(params)
                   /\ Len(params) > 0 =>
                         NamePart(items[1]) = RenderedName(params[1])
                   /\ \A k \in 1..Len(params) :
                         \E j \in 1..Len(items) :
                             NamePart(items[j]) = RenderedName(params[k])

\* A render that returned a function at module level, after a class body
\* was left, whose first parameter is named self and was kept.
C7_Witness ==
    /\ phase = "done"
    /\ \E i \in 1..Len(trace) :
          /\ trace[i].node.kind = "FunctionDef"
          /\ trace[i].stack0 = << >>
          /\ Len(trace[i].node.args.args) = 2
          /\ ParamName(trace[i].node.args.args[1]) = "self"
          /\ Len(HeaderParams(trace[i], " = ")) = 2
          /\ \E j \in 1..(i - 1) : trace[j].node.kind = "ClassDef"

\* C8: a Name self renders as '@'; an Attribute renders as '@attr' when
\* its value is the Name self and as the rendering of its value, a dot and
\* the attribute otherwise, so that a chain rooted at self is '@a.b'.
C8_ReceiverSigil ==
    \A i \in 1..Len(trace) :
        /\ (trace[i].node.kind = "Name" /\ trace[i].node.id = "self") =>
              trace[i].s = "@"
        /\ trace[i].node.kind = "Attribute" =>
              /\ i > 1
              /\ trace[i - 1].node = trace[i].node.value
              /\ trace[i].s =
                    IF /\ trace[i].node.value.kind = "Name"
                       /\ trace[i].node.value.id = "self"
                    THEN "@" \o trace[i].node.attr
                    ELSE trace[i - 1].s \o "." \o trace[i].node.attr

\* A render of a method body that returned with self, self.x rendered
\* inside a call, a chain rooted at self and an attribute of another name.
C8_Witness ==
    /\ phase = "done"
    /\ \E i \in 1..Len(trace) :
          /\ trace[i].node.kind = "Name"
          /\ trace[i].stack0 # << >>
          /\ trace[i].s = "@"
    /\ \E i \in 1..Len(trace) :
          trace[i].node.kind = "Attribute" /\ trace[i].s = "@x"
    /\ \E i \in 1..Len(trace) :
          trace[i].node.kind = "Attribute" /\ trace[i].s = "@a.b"
    /\ \E i \in 1..Len(trace) :
          trace[i].node.kind = "Attribute" /\ trace[i].s = "other.c"

\* The keyword a simple statement's body text starts with.
SimpleKeyword(kind) ==
    CASE kind = "Return" -> "return"
      [] kind = "Raise" -> "raise"
      [] kind = "Delete" -> "del "
      [] kind = "Assert" -> "assert "
      [] kind = "Pass" -> "pass"
      [] kind = "Break" -> "break"
      [] kind = "Continue" -> "continue"
      [] kind = "Global" -> "global "
      [] kind = "Import" -> "pass # import "
      [] kind = "ImportFrom" -> "pass # from "

\* The simple statements whose body text starts with a keyword.
KeywordKinds ==
    {"Return", "Raise", "Delete", "Assert", "Pass", "Break", "Continue",
     "Global", "Import", "ImportFrom"}

\* C9: every simple statement renders: no render ends with the TypeError of
\* a statement rule, and what a statement rule returns holds its body text at
\* the indentation of its level and ends its line.
C9_SimpleStatementsRender ==
    /\ err # "TypeError"
    /\ \A i \in 1..Len(trace) :
          trace[i].node.kind \in KeywordKinds =>
              /\ Contains(trace[i].s, Repeat("    ", trace[i].level0)
                                          \o SimpleKeyword(trace[i].node.kind))
              /\ CharAt(trace[i].s, Len(trace[i].s)) = "\n"

\* C10: no visit of a node whose kind has no do_ method returns; a render
\* that meets one ends with the AttributeError and returns no text, and no
\* assignment of such a value is among the statements rendered so far.
C10_UnknownKindAborts ==
    /\ \A i \in 1..Len(trace) : HasRule(trace[i].node.kind)
    /\ err = "AttributeError" => (phase \in {"failed", "idle"} /\ val = "")
    /\ phase = "done" => err = ""
    /\ phase \in {"visiting", "done"} =>
          \A k \in 1..(idx - 1) :
              Tree(prog).body[k].kind = "Assign" =>
                  HasRule(Tree(prog).body[k].value.kind)

\* A render that failed on an assignment whose value is a set display.
C10_Witness ==
    /\ phase = "failed"
    /\ err = "AttributeError"
    /\ val = ""
    /\ Tree(prog).body[idx].kind = "Assign"
    /\ Tree(prog).body[idx].value.kind = "Set"

(***************************************************************************)
(* Claims about TokenSync.sync_string (checked under SpecStr).             *)
(***************************************************************************)

\* C11: a call of sync_string for a literal whose line has an empty queue of
\* string tokens returns the node's own value node.s and leaves the TokenSync
\* (every queue, the watermark) as it was; the calls after it are served.
C11_UnderflowFallsBack ==
    \A k \in 1..Len(calls) :
        Len(calls[k].before.string_tokens[calls[k].node.lineno - 1]) = 0 =>
            /\ calls[k].underflow
            /\ calls[k].ret = calls[k].node.s
            /\ calls[k].after = calls[k].before

\* A client that drained the queue of a line, called again for that line and
\* then got the token of a literal of another line.
C11_Witness ==
    \E k \in 2..(Len(calls) - 1) :
        /\ calls[k].underflow
        /\ calls[k].ret = calls[k].node.s
        /\ ~calls[k - 1].underflow
        /\ calls[k - 1].node.lineno = calls[k].node.lineno
        /\ ~calls[k + 1].underflow
        /\ calls[k + 1].node.lineno > calls[k].node.lineno

(***************************************************************************)
(* Claims about the operator rules (checked under SpecOp).                 *)
(***************************************************************************)

\* The names of the comparators of a Compare node, concatenated.
RECURSIVE ComparatorNames(_)
ComparatorNames(comparators) ==
    IF Len(comparators) = 0 THEN ""
    ELSE Head(comparators).id \o ComparatorNames(Tail(comparators))

\* The Compare node the client had rendered.
Compared == trace[Len(trace)].node

\* C12: a Compare node with as many operators as not comparators renders
\* without an exception, logs a diagnostic, and its output is the left
\* operand followed by the rendered comparators with no operator between.
C12_MismatchRendersComparators ==
    (/\ phase \in {"done", "failed"}
     /\ InOpTable(op_call.node.kind)
     /\ Len(Compared.ops) # Len(Compared.comparators)) =>
        /\ err = ""
        /\ Len(log) > 0
        /\ val = Compared.left.id \o ComparatorNames(Compared.comparators)

RECURSIVE Chain(_, _)
\* The operators' declared spellings and the comparators' names, alternating.
Chain(ops, comparators) ==
    IF Len(ops) = 0 THEN ""
    ELSE OpTableGet(Head(ops).kind, "") \o Head(comparators).id
             \o Chain(Tail(ops), Tail(comparators))

\* C18: op_name returns, for every kind of its table, the spelling the table
\* declares, and a Compare node with as many operators as comparators
\* renders as the left operand followed by each operator's spelling and
\* comparator in order: a < b < c renders 'a<b<c'.
C18_DeclaredSpelling ==
    InOpTable(op_call.node.kind) =>
        /\ op_call.called =>
              /\ op_call.err = ""
              /\ op_call.ret = OpTableGet(op_call.node.kind, "")
        /\ (/\ phase \in {"done", "failed"}
            /\ Len(Compared.ops) = Len(Compared.comparators)) =>
              /\ err = ""
              /\ val = Compared.left.id \o Chain(Compared.ops, Compared.comparators)
              /\ (op_call.node.kind = "Lt" /\ Len(Compared.ops) = 2) => val = "a<b<c"

\* The chain a < b < c was rendered and op_name was called on Lt.
C18_Witness ==
    /\ op_call.called
    /\ op_call.node.kind = "Lt"
    /\ op_call.ret = "<"
    /\ phase = "done"
    /\ Len(Compared.ops) = 2
    /\ Len(Compared.comparators) = 2
    /\ val = "a<b<c"

(***************************************************************************)
(* Claims about TokenSync.trailing_comment (checked under SpecTrail).      *)
(***************************************************************************)

\* The tokens of the program that end on line n, in stream order.
Bucket(n) ==
    SelectSeq(prog.tokens, LAMBDA t:
        IF t.kind = "string" THEN t.erow = n ELSE t.srow = n)

\* The comment tokens of line n that follow another token of the line: the
\* comments that are not a line of their own.
TrailingComments(n) ==
    LET b == Bucket(n)
    IN  {i \in 2..Len(b) : b[i].kind = "comment"}

\* C13: trailing_comment(node) returns ' <comment>\n' when the node has a
\* line whose tokens include a comment that is not a full-line comment, and
\* '\n' otherwise, also for a node without a line number; the result holds
\* one newline, at its end.
C13_TrailingComment ==
    \A k \in 1..Len(calls) :
        LET node == calls[k].node
            ret == calls[k].ret
        IN  /\ IF HasLineno(node) /\ TrailingComments(node.lineno) # {}
               THEN \E i \in TrailingComments(node.lineno) :
                        ret = " " \o RStrip(Bucket(node.lineno)[i].val) \o "\n"
               ELSE ret = "\n"
            /\ Count(ret, "\n") = 1
            /\ SubSeq(ret, Len(ret), Len(ret)) = "\n"

(***************************************************************************)
(* Claims about parameter lists and function headers (checked under Spec). *)
(***************************************************************************)

\* The string the last visit of node before event i returned.
Rendering(node, i) ==
    LET found == {j \in 1..(i - 1) : trace[j].node = node}
    IN  trace[CHOOSE j \in found : \A k \in found : k <= j].s

\* The name of a vararg or kwarg: an arg node's name or the string itself.
StarName(name) == IF isPython3 THEN name.arg ELSE name

\* The items of the parameter list the claim describes for the arguments
\* node of event i.
ExpectedParams(i) ==
    LET node == trace[i].node
        n == Len(node.args)
        m == Len(node.defaults)
    IN  [k \in 1..n |->
            IF k <= n - m THEN RenderedName(node.args[k])
            ELSE RenderedName(node.args[k]) \o "="
                     \o Rendering(node.defaults[k - (n - m)], i)]
        \o (IF Has(node, "vararg") THEN << "*" \o StarName(node.vararg) >>
            ELSE << >>)
        \o (IF Has(node, "kwarg") THEN << "**" \o StarName(node.kwarg) >>
            ELSE << >>)

\* C14: an arguments node with n positional parameters and m defaults
\* renders the first n-m parameters bare and each later one as
\* 'name=default', then the vararg with '*' and the kwarg with '**';
\* 'def f(a, b=1)' renders with the header 'f = (a, b=1) ->'.
C14_ParameterList ==
    /\ \A i \in 1..Len(trace) :
          trace[i].node.kind = "arguments" =>
              trace[i].s = Join(",", ExpectedParams(i))
    /\ (phase = "done" /\ ncalls = 1 /\ prog.name = "scen1") =>
          SubSeq(val, 1, 16) = "f = (a, b=1) ->\n"

\* A render that returned a function with a bare parameter, a parameter
\* with a default, a vararg and a kwarg.
C14_Witness ==
    /\ phase = "done"
    /\ \E i \in 1..Len(trace) :
          /\ trace[i].node.kind = "arguments"
          /\ Len(trace[i].node.args) > Len(trace[i].node.defaults)
          /\ Len(trace[i].node.defaults) > 0
          /\ Has(trace[i].node, "vararg")
          /\ Has(trace[i].node, "kwarg")
          /\ trace[i].s = "a,b=1,*c,**d"
          /\ Contains(val, "f = (a, b=1, *c, **d) ->")

\* C15: a function's header binds its name with ': ' exactly when the
\* function is rendered while a class is on the class stack, and with ' = '
\* otherwise; a function at module level that follows a class whose body
\* was rendered is bound with ' = '.
C15_HeaderSeparator ==
    \A i \in 1..Len(trace) :
        trace[i].node.kind = "FunctionDef" =>
            /\ trace[i].stack0 # << >> =>
                  /\ HeaderAt(trace[i], ": ") > 0
                  /\ HeaderAt(trace[i], " = ") = 0
            /\ trace[i].stack0 = << >> =>
                  /\ HeaderAt(trace[i], " = ") > 0
                  /\ HeaderAt(trace[i], ": ") = 0
            /\ (ncalls = 1 /\ trace[i].level0 = 0) =>
                  HeaderAt(trace[i], " = ") > 0

\* A first render that returned a method bound with ': ' and, after the
\* class, a function at module level bound with ' = '.
C15_Witness ==
    /\ phase = "done"
    /\ ncalls = 1
    /\ \E i, j, k \in 1..Len(trace) :
          /\ i < j /\ j < k
          /\ trace[i].node.kind = "FunctionDef"
          /\ trace[i].stack0 # << >>
          /\ HeaderAt(trace[i], ": ") > 0
          /\ trace[j].node.kind = "ClassDef"
          /\ trace[k].node.kind = "FunctionDef"
          /\ trace[k].level0 = 0
          /\ HeaderAt(trace[k], " = ") > 0

(***************************************************************************)
(* Claims about import statements (checked under Spec).                    *)
(***************************************************************************)

\* The names of an import statement as written, 'name' or 'name as alias',
\* separated by commas (the blanks after the commas are not compared).
WrittenNames(node) ==
    Join(",", [i \in 1..Len(node.names) |->
        IF Has(node.names[i], "asname")
        THEN node.names[i].name \o " as " \o node.names[i].asname
        ELSE node.names[i].name])

\* What stands between 'from' and 'import' in the program text: one dot per
\* level of a relative import, then the module's name if there is one.
WrittenModule(node) ==
    Repeat(".", node.level) \o (IF Has(node, "module") THEN node.module ELSE "")

\* The text of an import statement.
ImportText(node) ==
    IF node.kind = "Import" THEN "import " \o WrittenNames(node)
    ELSE "from " \o WrittenModule(node) \o " import " \o WrittenNames(node)

\* C16: an import statement of any form renders as 'pass # ' followed by
\* the text of the import: 'import <names>' or 'from <module> import
\* <names>', a relative import with its dots.
C16_ImportText ==
    \A i \in 1..Len(trace) :
        trace[i].node.kind \in {"Import", "ImportFrom"} =>
            Contains(trace[i].s, "pass # " \o ImportText(trace[i].node) \o "\n")

(***************************************************************************)
(* Claims about comment lines in the rendered program (checked under       *)
(* Spec).                                                                  *)
(***************************************************************************)

\* The node kinds that are statements.
StatementKinds ==
    {"Assert", "Assign", "AugAssign", "Break", "ClassDef", "Continue",
     "Delete", "Exec", "Expr", "For", "FunctionDef", "Global", "If", "Import",
     "ImportFrom", "Pass", "Print", "Raise", "Return", "Try", "TryExcept",
     "TryFinally", "While", "With"}

\* Line n of the program is a comment and nothing else.
IsCommentLine(n) ==
    /\ n >= 1
    /\ Len(Bucket(n)) > 0
    /\ Bucket(n)[1].kind = "comment"

\* Line n of the program text, without the blanks at its end.
ProgramLine(n) == RStrip(splitLines(prog.s)[n]) \o "\n"

\* Every line of the list is blank or a comment.
OnlyIgnoredLines(lines) ==
    \A k \in 1..Len(lines) :
        Strip(lines[k]) = "" \/ StartsWith(LStrip(lines[k]), "#")

\* Event i is the first statement of its line that was rendered.
FirstOfLine(i) ==
    /\ trace[i].node.kind \in StatementKinds
    /\ HasLineno(trace[i].node)
    /\ \A j \in 1..(i - 1) :
          (trace[j].node.kind \in StatementKinds /\ HasLineno(trace[j].node))
              => trace[j].node.lineno # trace[i].node.lineno

C19_FreshRenderState ==
    (phase = "visiting" /\ idx = 1) =>
        /\ level = 0
        /\ class_stack = << >>
        /\ sync = TokenSyncInit(prog.s, prog.tokens)

(***************************************************************************)
(* Claims about the watermark after leading_lines (checked under           *)
(* SpecSync).                                                              *)
(***************************************************************************)

\* C20 as stated: every call leading_lines(node) for a node with line L
\* leaves the watermark first_leading_line equal to L, whatever it was
\* before.
C20_WatermarkEqualsLine ==
    \A k \in 1..Len(calls) :
        HasLineno(calls[k].node) => calls[k].after = calls[k].node.lineno

\* C20: every call leading_lines(node) for a node with line L leaves the
\* watermark first_leading_line at L when it was below L and where it was
\* when it was at or beyond L; a call for a node without a line leaves it
\* where it was.
C20_WatermarkAtLeastLine ==
    \A k \in 1..Len(calls) :
        calls[k].after =
            IF HasLineno(calls[k].node) /\ calls[k].before < calls[k].node.lineno
            THEN calls[k].node.lineno
            ELSE calls[k].before

\* A call that moved the watermark up to its line, followed by a call for
\* an earlier line that left the watermark beyond its line.
C20_Witness ==
    \E k \in 1..(Len(calls) - 1) :
        /\ HasLineno(calls[k].node)
        /\ calls[k].before < calls[k].node.lineno
        /\ calls[k].after = calls[k].node.lineno
        /\ HasLineno(calls[k + 1].node)
        /\ calls[k + 1].node.lineno < calls[k + 1].before
        /\ calls[k + 1].after = calls[k + 1].before

(***************************************************************************)
(* Claims about the indexes TokenSync.__init__ builds (checked under       *)
(* SpecSync, whose calls leave the three indexes as they were built).      *)
(***************************************************************************)

\* The indices of an index with one entry per source line and one more.
LineIndices == 0..Len(sync.lines)

\* Whether the k-th token of the stream belongs to bucket i: a string token
\* by its end row, any other token by its start row.
InBucket(k, i) ==
    IF prog.tokens[k].kind = "string"
    THEN prog.tokens[k].erow - 1 = i
    ELSE prog.tokens[k].srow - 1 = i

\* The tokens of the stream that belong to bucket i, in stream order.
InStreamOrder(i) ==
    LET ks == {k \in 1..Len(prog.tokens) : InBucket(k, i)}
    IN  [j \in 1..Cardinality(ks) |->
            prog.tokens[CHOOSE k \in ks :
                            Cardinality({m \in ks : m < k}) = j - 1]]

\* C21: after the indexer is built, the line-token index, the ignored-line
\* index and the string-token index each have len(lines) + 1 entries, and
\* every token of the stream is in exactly one line bucket, index
\* end row - 1 when its kind is string and start row - 1 otherwise, in
\* stream order inside each bucket.
C21_LineBuckets ==
    /\ DOMAIN sync.line_tokens = LineIndices
    /\ DOMAIN sync.ignored_lines = LineIndices
    /\ DOMAIN sync.string_tokens = LineIndices
    /\ \A k \in 1..Len(prog.tokens) :
          Cardinality({i \in LineIndices : InBucket(k, i)}) = 1
    /\ \A i \in LineIndices : sync.line_tokens[i] = InStreamOrder(i)

\* An indexer built for a source with a string literal that ends on a later
\* line than it starts on, the literal sitting in the bucket of its end row
\* behind a token of that row that comes later in no bucket.
C21_Witness ==
    \E k \in 1..Len(prog.tokens) :
        /\ prog.tokens[k].kind = "string"
        /\ prog.tokens[k].srow < prog.tokens[k].erow
        /\ sync.line_tokens[prog.tokens[k].erow - 1][1] = prog.tokens[k]
        /\ Len(sync.line_tokens[prog.tokens[k].erow - 1]) > 1

\* The kinds of the tokens that carry no code.
LayoutKinds == {"comment", "nl", "newline", "indent", "dedent", "endmarker"}

\* The comment tokens of bucket i when the line holds a comment and no code:
\* a full-line comment.
FullLineComments(i) ==
    IF \A k \in 1..Len(sync.line_tokens[i]) :
           sync.line_tokens[i][k].kind \in LayoutKinds
    THEN SelectSeq(sync.line_tokens[i], LAMBDA z: z.kind = "comment")
    ELSE << >>

\* The entry the ignored-line index is specified to hold for line index i.
IgnoredEntry(i) ==
    IF Len(FullLineComments(i)) > 0 THEN FullLineComments(i)[1]
    ELSE IF Len(sync.line_tokens[i]) = 1 /\ sync.line_tokens[i][1].kind = "nl"
         THEN sync.nl_token
    ELSE NoneVal

\* The indices of the lines that are ignored as specified.
IgnoredIndices == {i \in LineIndices : IgnoredEntry(i) # NoneVal}

\* C22: the ignored-line index holds, per line, the full-line comment token
\* when the bucket contains one, else the synthetic blank-line token when
\* the bucket holds exactly one line-break token, else none; the initial
\* watermark is the index of the first ignored line, or the length of the
\* index when no line is ignored.
C22_IgnoredIndex ==
    /\ \A i \in LineIndices : sync.ignored_lines[i] = IgnoredEntry(i)
    /\ calls = << >> =>
          /\ sync.first_leading_line \in IgnoredIndices \cup {Len(sync.lines) + 1}
          /\ \A i \in IgnoredIndices : sync.first_leading_line <= i

(***************************************************************************)
(* Claims about do_Dict (checked under SpecDict).                          *)
(***************************************************************************)

\* The watermark after leading_lines on a key, from the watermark w before.
AfterKey(key, w) ==
    IF HasLineno(key) /\ key.lineno > w THEN key.lineno ELSE w

RECURSIVE DictEntries(_, _, _, _)
\* The entries of the dict display d from pair i on, rendered from the
\* watermark w: each entry is the rendering of its key, ':', the rendering of
\* its value and the value's trailing comment, indented one level, behind
\* the ignored lines between the watermark and the key's line; with
\* keep_blank false the blank lines of that range are left out.  The
\* renderings of the keys and values are those the trace holds (the keys and
\* values of the catalogue's displays are literals).
DictEntries(d, i, w, keep_blank) ==
    IF i > Len(d.keys) THEN ""
    ELSE LET lines == IgnoredText(sync, w, AfterKey(d.keys[i], w))
             head == IF keep_blank THEN lines
                     ELSE SelectSeq(lines, LAMBDA z: Strip(z) # "")
         IN  (IF Len(head) > 0 THEN "\n" \o Join("", head) ELSE "")
             \o Repeat(" ", 4 * (trace[Len(trace)].level0 + 1))
             \o trace[2 * i - 1].s \o ":" \o trace[2 * i].s
             \o trailing_comment(sync, d.values[i])
             \o DictEntries(d, i + 1, AfterKey(d.keys[i], w), keep_blank)

\* The rendering of the display of call k with the entries of DictEntries.
DictRendering(k, keep_blank) ==
    "{" \o DictEntries(calls[k].node, 1, calls[k].before, keep_blank)
        \o Repeat(" ", 4 * trace[Len(trace)].level0) \o "}"

\* The display of call k was rendered pair by pair in source order, its
\* lines were consumed and no later call returns a line before the
\* watermark the display left.
DictConsumed(k) ==
    LET d == calls[k].node
    IN  /\ Len(trace) = 2 * Len(d.keys) + 1
        /\ \A i \in 1..Len(d.keys) :
              /\ trace[2 * i - 1].node = d.keys[i]
              /\ trace[2 * i].node = d.values[i]
              /\ calls[k].after >= d.keys[i].lineno
        /\ \A j \in (k + 1)..Len(calls) :
              /\ calls[j].before >= calls[k].after
              /\ calls[j].ret =
                    IgnoredText(sync, calls[j].before, calls[j].after)

\* The calls of the history that rendered a dict display with pairs.
DictCalls ==
    {k \in 1..Len(calls) :
        /\ calls[k].node.kind = "Dict"
        /\ Len(calls[k].node.keys) > 0
        /\ phase = "done"}

\* C23 as stated: a dict display with k pairs renders k 'key:value' entries
\* in source order, each preceded by the ignored lines (comment lines and
\* blank lines) between the watermark and that key's line; those lines are
\* consumed from the watermark, so no later call emits them again.
C23_DictEntries ==
    \A k \in DictCalls :
        /\ calls[k].ret = DictRendering(k, TRUE)
        /\ DictConsumed(k)

\* C23 amended: a dict display with k pairs renders k 'key:value' entries in
\* source order, each preceded by the comment lines between the watermark
\* and that key's line; the blank lines of that range are not rendered; all
\* ignored lines of the range are consumed from the watermark, so no later
\* call emits them again.
C23_DictEntriesWithoutBlankLines ==
    \A k \in DictCalls :
        /\ calls[k].ret = DictRendering(k, FALSE)
        /\ DictConsumed(k)

\* A display of two pairs was rendered with a comment line before one key
\* and a blank line consumed before another, and a later call of
\* leading_lines returned lines behind the display.
C23_Witness ==
    \E k \in DictCalls :
        /\ Len(calls[k].node.keys) >= 2
        /\ \E i \in calls[k].before..(calls[k].after - 1) :
              sync.ignored_lines[i] = sync.nl_token
        /\ \E i \in calls[k].before..(calls[k].after - 1) :
              /\ sync.ignored_lines[i] # NoneVal
              /\ sync.ignored_lines[i].kind = "comment"
        /\ \E j \in (k + 1)..Len(calls) : Len(calls[j].ret) > 0

(***************************************************************************)
(* Claims about the string queues during a render pass (checked under      *)
(* Spec).                                                                  *)
(***************************************************************************)

\* The string tokens of the line with index i, in stream order: the queue
\* make_string_tokens builds for the line.
StringsOfLine(i) ==
    SelectSeq(sync.line_tokens[i], LAMBDA z: z.kind = "string")

\* Whether the j-th event of the trace is the rendering of a string literal
\* of line n by do_Str, hence one call of sync_string for line n.
IsStrEvent(j, n) ==
    /\ trace[j].node.kind = "Str"
    /\ HasLineno(trace[j].node)
    /\ trace[j].node.lineno = n

\* C24: each per-line string queue is first-in first-out and drained once
\* per literal: the k-th sync_string call for line L returns the k-th string
\* token of L (so no token is returned twice), and after a complete render
\* pass every string token of the source has been popped, all queues being
\* empty.
C24_StringQueues ==
    phase \in {"visiting", "done"} =>
        /\ \A j \in 1..Len(trace) :
              (trace[j].node.kind = "Str" /\ HasLineno(trace[j].node)) =>
                  LET n == trace[j].node.lineno
                      k == Cardinality({m \in 1..j : IsStrEvent(m, n)})
                  IN  k <= Len(StringsOfLine(n - 1)) =>
                          trace[j].s = StringsOfLine(n - 1)[k].val
        /\ phase = "done" =>
              \A i \in DOMAIN sync.string_tokens :
                  sync.string_tokens[i] = << >>

(***************************************************************************)
(* Claims about the indentation of the rendered statements (checked under  *)
(* Spec).                                                                  *)
(***************************************************************************)

\* The lines of a rendering that are neither blank nor a comment line.
OwnLines(s) ==
    SelectSeq(splitLines(s), LAMBDA z: ~OnlyIgnoredLines(<< z >>))

\* The number of blanks a line starts with.
LeadingBlanks(line) == Len(line) - Len(LStrip(line))

\* C25: every rendered statement starts, behind the newlines and the comment
\* and blank lines it carries, with four blanks times the level in force
\* for the statement, and with no more: no line receives the indent prefix
\* twice, also not an expression statement whose value is a yield or a
\* lambda.
C25_IndentOnce ==
    phase \in {"visiting", "done"} =>
        \A i \in 1..Len(trace) :
            (trace[i].node.kind \in StatementKinds
                /\ Len(OwnLines(trace[i].s)) > 0) =>
                LeadingBlanks(OwnLines(trace[i].s)[1]) = 4 * trace[i].level0

(***************************************************************************)
(* Claims about the trailing comments of the rendered program (checked     *)
(* under Spec).                                                            *)
(***************************************************************************)

\* The positions of the comment tokens of the program that follow another
\* token on their line: the trailing comments.
TrailingPositions ==
    {k \in 2..Len(prog.tokens) :
        /\ prog.tokens[k].kind = "comment"
        /\ prog.tokens[k - 1].kind \notin {"nl", "newline", "indent", "dedent"}
        /\ prog.tokens[k - 1].erow = prog.tokens[k].srow}

\* The text of the comment at position k is part of no other comment of the
\* program.
TextOfOneComment(k) ==
    \A m \in 1..Len(prog.tokens) :
        (m # k /\ prog.tokens[m].kind = "comment") =>
            ~Contains(prog.tokens[m].val, prog.tokens[k].val)

\* C26: every trailing comment of the source is in the rendered output
\* once: no rule emits the trailing comment of a line twice, also not a
\* while statement with an else clause or an expression statement whose
\* value is a yield.
C26_TrailingCommentOnce ==
    phase = "done" =>
        \A k \in TrailingPositions :
            TextOfOneComment(k) => Count(val, prog.tokens[k].val) = 1

=============================================================================
